---- MODULE Spec2Model ----
(***************************************************************************)
(* TradeMinutes workflow DSL: lexer, recursive-descent parser and          *)
(* tree-walking executor.                                                  *)
(*                                                                         *)
(* Strings are TLA+ strings; the character at 0-based index i of s is      *)
(* SubSeq(s, i+1, i+1).  Option<T> is the empty tuple (None) or the        *)
(* one-element tuple <<v>> (Some(v)).  Result<T> is a record whose field   *)
(* ok tells Ok from Err; an Err carries the anyhow message in msg.         *)
(***************************************************************************)
EXTENDS Integers, Sequences, FiniteSets, TLC

None == <<>>
Some(v) == <<v>>
IsSome(o) == o # <<>>
Unwrap(o) == o[1]

Ok(v) == [ok |-> TRUE, v |-> v]
Err(m) == [ok |-> FALSE, msg |-> m]

(***************************************************************************)
(* Characters                                                              *)
(***************************************************************************)
NUL == "NUL"    \* the '\0' that Lexer::peek returns at the end of input

CharAt(s, i) == SubSeq(s, i + 1, i + 1)

Digits == {"0", "1", "2", "3", "4", "5", "6", "7", "8", "9"}

Letters ==
    {"a", "b", "c", "d", "e", "f", "g", "h", "i", "j", "k", "l", "m",
     "n", "o", "p", "q", "r", "s", "t", "u", "v", "w", "x", "y", "z",
     "A", "B", "C", "D", "E", "F", "G", "H", "I", "J", "K", "L", "M",
     "N", "O", "P", "Q", "R", "S", "T", "U", "V", "W", "X", "Y", "Z"}

is_ascii_digit(c) == c \in Digits
is_ascii_alphabetic(c) == c \in Letters
is_alphanumeric(c) == c \in Letters \cup Digits
is_whitespace(c) == c \in {" ", "\n", "\t", "\r"}

DigitValue(c) ==
    CASE c = "0" -> 0 [] c = "1" -> 1 [] c = "2" -> 2 [] c = "3" -> 3
      [] c = "4" -> 4 [] c = "5" -> 5 [] c = "6" -> 6 [] c = "7" -> 7
      [] c = "8" -> 8 [] c = "9" -> 9

RECURSIVE Pow10(_)
Pow10(d) == IF d = 0 THEN 1 ELSE 10 * Pow10(d - 1)

(***************************************************************************)
(* f64 values.  A number is [neg, m, d], meaning (-1)^neg * m / 10^d, kept *)
(* normalised so that the fraction has no trailing zero.  Exact for the    *)
(* short decimals of the bounded inputs; exponents, "inf" and "nan" are    *)
(* outside them.                                                           *)
(***************************************************************************)
RECURSIVE Normalise(_)
Normalise(n) ==
    IF n.d > 0 /\ n.m % 10 = 0
    THEN Normalise([neg |-> n.neg, m |-> n.m \div 10, d |-> n.d - 1])
    ELSE n

F64(m, d) == Normalise([neg |-> FALSE, m |-> m, d |-> d])
F64Zero == F64(0, 0)

\* index (0-based) of the first character at or after i that is not a digit
RECURSIVE DigitRunEnd(_, _)
DigitRunEnd(s, i) ==
    IF i < Len(s) /\ is_ascii_digit(CharAt(s, i)) THEN DigitRunEnd(s, i + 1) ELSE i

\* value of the digit string s[from..to) read as a decimal integer
RECURSIVE DigitsValue(_, _, _)
DigitsValue(s, from, to) ==
    IF from >= to THEN 0
    ELSE DigitsValue(s, from, to - 1) * 10 + DigitValue(CharAt(s, to - 1))

\* str::parse::<f64>: [+-]? digits [. digits?] | [+-]? . digits
parse_f64(s) ==
    LET signed == Len(s) > 0 /\ CharAt(s, 0) \in {"+", "-"}
        neg == Len(s) > 0 /\ CharAt(s, 0) = "-"
        i0 == IF signed THEN 1 ELSE 0
        i1 == DigitRunEnd(s, i0)
        hasDot == i1 < Len(s) /\ CharAt(s, i1) = "."
        f0 == IF hasDot THEN i1 + 1 ELSE i1
        f1 == DigitRunEnd(s, f0)
        intDigits == i1 - i0
        fracDigits == f1 - f0
    IN  IF f1 = Len(s) /\ intDigits + fracDigits > 0
        THEN Some(Normalise([neg |-> neg,
                             m |-> DigitsValue(s, i0, i1) * Pow10(fracDigits)
                                   + DigitsValue(s, f0, f1),
                             d |-> fracDigits]))
        ELSE None

\* the signed numerator of n over the denominator 10^d, for d >= n.d
Scaled(n, d) == (IF n.neg THEN -1 ELSE 1) * n.m * Pow10(d - n.d)
MaxD(a, b) == IF a.d > b.d THEN a.d ELSE b.d
f64_gt(a, b) == Scaled(a, MaxD(a, b)) > Scaled(b, MaxD(a, b))
f64_lt(a, b) == Scaled(a, MaxD(a, b)) < Scaled(b, MaxD(a, b))
f64_ge(a, b) == Scaled(a, MaxD(a, b)) >= Scaled(b, MaxD(a, b))
f64_le(a, b) == Scaled(a, MaxD(a, b)) <= Scaled(b, MaxD(a, b))

\* the fraction digits of m, zero-padded on the left to d digits
RECURSIVE PadFrac(_, _)
PadFrac(m, d) ==
    IF d = 0 THEN "" ELSE PadFrac(m \div 10, d - 1) \o ToString(m % 10)

\* a Display that always writes a fractional part ("200.0"), as the float
\* formatting of other languages does
f64_to_string_fixed(n) ==
    LET p == Pow10(n.d)
        sign == IF n.neg THEN "-" ELSE ""
    IN  IF n.d = 0 THEN sign \o ToString(n.m) \o ".0"
        ELSE sign \o ToString(n.m \div p) \o "." \o PadFrac(n.m % p, n.d)

\* f64::to_string (Display): shortest decimal form, no exponent, "200" for 200.0
f64_to_string(n) ==
    LET p == Pow10(n.d)
        sign == IF n.neg THEN "-" ELSE ""
    IN  IF n.d = 0 THEN sign \o ToString(n.m)
        ELSE sign \o ToString(n.m \div p) \o "." \o PadFrac(n.m % p, n.d)

\* `f as u32`: truncates toward zero; a negative value gives 0.  (The cast
\* saturates at 2^32 - 1, far above every number of the bounded inputs.)
f64_as_u32(n) == IF n.neg THEN 0 ELSE n.m \div Pow10(n.d)

u32_to_string(n) == ToString(n)
bool_to_string(b) == IF b THEN "true" ELSE "false"

(***************************************************************************)
(* Lexer (lexer.rs)                                                        *)
(***************************************************************************)
Token(token_type, lexeme, literal, line) ==
    [token_type |-> token_type, lexeme |-> lexeme, literal |-> literal, line |-> line]

\* the keywords map built by Lexer::new
Keywords ==
    {"workflow", "step", "let", "var", "const", "if", "else",
     "print", "log", "fetch", "send_email", "notify"}

KeywordType(text) ==
    CASE text = "workflow" -> "Workflow"
      [] text = "step" -> "Step"
      [] text = "let" -> "Let"
      [] text = "var" -> "Var"
      [] text = "const" -> "Const"
      [] text = "if" -> "If"
      [] text = "else" -> "Else"
      [] text = "print" -> "Print"
      [] text = "log" -> "Log"
      [] text = "fetch" -> "Fetch"
      [] text = "send_email" -> "SendEmail"
      [] text = "notify" -> "Notify"

Lexer_new(source) ==
    [source |-> source, tokens |-> <<>>, start |-> 0, current |-> 0, line |-> 1]

Lexer_is_at_end(L) == L.current >= Len(L.source)

Lexer_peek(L) == IF Lexer_is_at_end(L) THEN NUL ELSE CharAt(L.source, L.current)

Lexer_peek_next(L) ==
    IF L.current + 1 >= Len(L.source) THEN NUL ELSE CharAt(L.source, L.current + 1)

\* advance moves the cursor; the character it returns is CharAt(source, current)
Lexer_advance(L) == [L EXCEPT !.current = @ + 1]

Lexer_match_char(L, expected) ==
    ~Lexer_is_at_end(L) /\ CharAt(L.source, L.current) = expected

Lexeme(L) == SubSeq(L.source, L.start + 1, L.current)

add_token(L, token_type) ==
    [L EXCEPT !.tokens = Append(@, Token(token_type, Lexeme(L), None, L.line))]

add_token_with_literal(L, token_type, literal) ==
    [L EXCEPT !.tokens = Append(@, Token(token_type, Lexeme(L), Some(literal), L.line))]

\* the body loop of Lexer::string: runs to the closing quote or the end
RECURSIVE StringBody(_, _)
StringBody(L, quote) ==
    IF Lexer_peek(L) # quote /\ ~Lexer_is_at_end(L)
    THEN StringBody([L EXCEPT !.current = @ + 1,
                              !.line = IF Lexer_peek(L) = "\n" THEN @ + 1 ELSE @],
                    quote)
    ELSE L

\* a Lexer::string that takes the end of the source for the closing quote
string_lenient(L) ==
    LET quote == CharAt(L.source, L.current - 1)
        B == StringBody(L, quote)
        C == Lexer_advance(B)
    IN  IF Lexer_is_at_end(B)
        THEN Ok(add_token_with_literal(B, "String",
                                       SubSeq(B.source, B.start + 2, B.current)))
        ELSE Ok(add_token_with_literal(C, "String",
                                       SubSeq(C.source, C.start + 2, C.current - 1)))

\* Lexer::string
string(L) ==
    LET quote == CharAt(L.source, L.current - 1)
        B == StringBody(L, quote)
        C == Lexer_advance(B)
    IN  IF Lexer_is_at_end(B)
        THEN Err("Unterminated string")
        ELSE Ok(add_token_with_literal(C, "String",
                                       SubSeq(C.source, C.start + 2, C.current - 1)))

RECURSIVE DigitRun(_)
DigitRun(L) ==
    IF is_ascii_digit(Lexer_peek(L)) THEN DigitRun(Lexer_advance(L)) ELSE L

\* a number that takes a `.` after the digits whatever follows it
number_greedy(L) ==
    LET A == DigitRun(L)
        B == IF Lexer_peek(A) = "." THEN DigitRun(Lexer_advance(A)) ELSE A
    IN  add_token_with_literal(B, "Number", Lexeme(B))

number(L) ==
    LET A == DigitRun(L)
        B == IF Lexer_peek(A) = "." /\ is_ascii_digit(Lexer_peek_next(A))
             THEN DigitRun(Lexer_advance(A))
             ELSE A
    IN  add_token_with_literal(B, "Number", Lexeme(B))

RECURSIVE IdentRun(_)
IdentRun(L) ==
    IF is_alphanumeric(Lexer_peek(L)) \/ Lexer_peek(L) = "_"
    THEN IdentRun(Lexer_advance(L))
    ELSE L

identifier(L) ==
    LET A == IdentRun(L)
        text == Lexeme(A)
    IN  add_token(A, IF text \in Keywords THEN KeywordType(text) ELSE "Identifier")

\* one-or-two character operator: two when the next character is '='
TwoCharOp(L, double, single) ==
    IF Lexer_match_char(L, "=")
    THEN add_token(Lexer_advance(L), double)
    ELSE add_token(L, single)

scan_token(L0) ==
    LET c == CharAt(L0.source, L0.current)
        L == Lexer_advance(L0)
    IN  CASE c = "(" -> Ok(add_token(L, "LeftParen"))
          [] c = ")" -> Ok(add_token(L, "RightParen"))
          [] c = "{" -> Ok(add_token(L, "LeftBrace"))
          [] c = "}" -> Ok(add_token(L, "RightBrace"))
          [] c = ":" -> Ok(add_token(L, "Colon"))
          [] c = ";" -> Ok(add_token(L, "Semicolon"))
          [] c = "," -> Ok(add_token(L, "Comma"))
          [] c = "." -> Ok(add_token(L, "Dot"))
          [] c = "=" -> Ok(TwoCharOp(L, "EqualEqual", "Equal"))
          [] c = "!" -> IF Lexer_match_char(L, "=")
                        THEN Ok(add_token(Lexer_advance(L), "NotEqual"))
                        ELSE Err("Unexpected character: !")
          [] c = "<" -> Ok(TwoCharOp(L, "LessEqual", "Less"))
          [] c = ">" -> Ok(TwoCharOp(L, "GreaterEqual", "Greater"))
          [] c = "+" -> Ok(add_token(L, "Plus"))
          [] c = "\"" -> string(L)
          [] c = "'" -> string(L)
          [] is_ascii_digit(c) -> Ok(number(L))
          [] is_ascii_alphabetic(c) \/ c = "_" -> Ok(identifier(L))
          [] is_whitespace(c) -> Ok([L EXCEPT !.line = IF c = "\n" THEN @ + 1 ELSE @])
          [] OTHER -> Err("Unexpected character: " \o c)

\* a tokenize loop without the push of the Eof token after it
RECURSIVE TokenizeLoop_no_eof(_)
TokenizeLoop_no_eof(L) ==
    IF Lexer_is_at_end(L)
    THEN Ok(L.tokens)
    ELSE LET r == scan_token([L EXCEPT !.start = L.current])
         IN  IF r.ok THEN TokenizeLoop_no_eof(r.v) ELSE r

RECURSIVE TokenizeLoop(_)
TokenizeLoop(L) ==
    IF Lexer_is_at_end(L)
    THEN Ok(Append(L.tokens, Token("Eof", "", None, L.line)))
    ELSE LET r == scan_token([L EXCEPT !.start = L.current])
         IN  IF r.ok THEN TokenizeLoop(r.v) ELSE r

tokenize(source) == TokenizeLoop(Lexer_new(source))

(***************************************************************************)
(* AST (ast.rs)                                                            *)
(***************************************************************************)
StringLiteral(value) == [type |-> "StringLiteral", value |-> value]
NumberLiteral(value) == [type |-> "NumberLiteral", value |-> value]
Identifier(name) == [type |-> "Identifier", name |-> name]
BinaryExpression(left, operator, right) ==
    [type |-> "BinaryExpression", left |-> left, operator |-> operator, right |-> right]
PropertyAccess(object, property) ==
    [type |-> "PropertyAccess", object |-> object, property |-> property]
StepReference(step_id, property) ==
    [type |-> "StepReference", step_id |-> step_id, property |-> property]

VariableDeclaration(keyword, name, value) ==
    [keyword |-> keyword, name |-> name, value |-> value]
Command(name, arguments) == [type |-> "Command", name |-> name, arguments |-> arguments]
ConditionalStatement(condition, if_steps, else_steps) ==
    [type |-> "Conditional", condition |-> condition,
     if_steps |-> if_steps, else_steps |-> else_steps]
Step(id, content) == [id |-> id, content |-> content]
Workflow(name, steps) == [name |-> name, steps |-> steps]
Program(workflows, variables) == [workflows |-> workflows, variables |-> variables]

(***************************************************************************)
(* Parser (parser.rs).  A parser P is [tokens, current]; a parse function  *)
(* returns Err(message) or [ok |-> TRUE, v |-> node, p |-> parser after].  *)
(***************************************************************************)
POk(v, P) == [ok |-> TRUE, v |-> v, p |-> P]

\* the `?` operator: an Err is returned as it is, an Ok goes on into Rest
Try(r, Rest(_)) == IF r.ok THEN Rest(r) ELSE r

Parser_new(tokens) == [tokens |-> tokens, current |-> 0]

Parser_peek(P) == P.tokens[P.current + 1]
Parser_previous(P) == P.tokens[P.current]

Parser_is_at_end(P) ==
    P.current >= Len(P.tokens) \/ Parser_peek(P).token_type = "Eof"

\* an advance without the test of is_at_end
Parser_advance_unchecked(P) == [P EXCEPT !.current = @ + 1]

Parser_advance(P) ==
    IF ~Parser_is_at_end(P) THEN [P EXCEPT !.current = @ + 1] ELSE P

check(P, token_type) ==
    IF Parser_is_at_end(P) THEN FALSE ELSE Parser_peek(P).token_type = token_type

\* match_token: whether the next token is one of types (it is then consumed)
match_token(P, types) == \E t \in types : check(P, t)

\* the token advance returns, with the parser after it
Advanced(A) == POk(Parser_previous(A), A)

consume(P, token_type, message) ==
    IF check(P, token_type) THEN Advanced(Parser_advance(P)) ELSE Err(message)

unwrap_or_default(literal) == IF IsSome(literal) THEN Unwrap(literal) ELSE ""

consume_string(P, message) ==
    Try(consume(P, "String", message),
        LAMBDA token : POk(unwrap_or_default(token.v.literal), token.p))

\* `lexeme.parse::<f64>().map_err(|_| anyhow!(message))`
parse_number(parsed, P, message) ==
    IF IsSome(parsed) THEN POk(Unwrap(parsed), P) ELSE Err(message)

consume_number(P, message) ==
    Try(consume(P, "Number", message),
        LAMBDA token : parse_number(parse_f64(token.v.lexeme), token.p, message))

consume_identifier(P, message) ==
    Try(consume(P, "Identifier", message),
        LAMBDA token : POk(token.v.lexeme, token.p))

BinaryOperatorTokens ==
    {"Plus", "EqualEqual", "NotEqual", "Greater", "Less", "GreaterEqual", "LessEqual"}

\* the optional `. property` after an identifier or a step number
DotProperty(P) ==
    IF check(P, "Dot")
    THEN Try(consume_identifier(Parser_advance(P), "Expected property name"),
             LAMBDA property : POk(Some(property.v), property.p))
    ELSE POk(None, P)

\* the arms of parse_primary, tok being the token advance returned
PrimaryOf(tt, tok, A) ==
    CASE tt = "String" -> POk(StringLiteral(unwrap_or_default(tok.literal)), A)
      [] tt = "Number" ->
           Try(parse_number(parse_f64(tok.lexeme), A, "Invalid number"),
               LAMBDA value : POk(NumberLiteral(value.v), value.p))
      [] tt = "Identifier" ->
           Try(DotProperty(A),
               LAMBDA property :
                   IF IsSome(property.v)
                   THEN POk(PropertyAccess(Identifier(tok.lexeme), Unwrap(property.v)),
                            property.p)
                   ELSE POk(Identifier(tok.lexeme), property.p))
      [] tt = "Step" ->
           Try(consume_number(A, "Expected step number"),
               LAMBDA step_id :
                   Try(DotProperty(step_id.p),
                       LAMBDA property :
                           POk(StepReference(f64_as_u32(step_id.v), property.v),
                               property.p)))
      [] OTHER -> Err("Expected expression")

parse_primary(P) ==
    IF Parser_peek(P).token_type \in {"String", "Number", "Identifier", "Step"}
    THEN Try(Advanced(Parser_advance(P)),
             LAMBDA token : PrimaryOf(token.v.token_type, token.v, token.p))
    ELSE Err("Expected expression")

\* a loop that parses what follows an operator as one expression, so that a
\* chain nests to the right
RECURSIVE BinaryLoop_right(_)
BinaryLoop_right(left) ==
    IF match_token(left.p, BinaryOperatorTokens)
    THEN Try(Advanced(Parser_advance(left.p)),
             LAMBDA operator :
                 Try(parse_primary(operator.p),
                     LAMBDA right :
                         Try(BinaryLoop_right(right),
                             LAMBDA rest :
                                 POk(BinaryExpression(left.v, operator.v.lexeme, rest.v),
                                     rest.p))))
    ELSE left

\* the while loop of parse_binary_expression, left being the expression so far
RECURSIVE BinaryLoop(_)
BinaryLoop(left) ==
    IF match_token(left.p, BinaryOperatorTokens)
    THEN Try(Advanced(Parser_advance(left.p)),
             LAMBDA operator :
                 Try(parse_primary(operator.p),
                     LAMBDA right :
                         BinaryLoop(POk(BinaryExpression(left.v, operator.v.lexeme,
                                                         right.v),
                                        right.p))))
    ELSE left

parse_binary_expression(P) == Try(parse_primary(P), BinaryLoop)

parse_expression(P) == parse_binary_expression(P)

\* the loop of parse_expression_list, expressions being the list so far
RECURSIVE ExpressionListLoop(_, _)
ExpressionListLoop(P, expressions) ==
    Try(parse_expression(P),
        LAMBDA expression :
            IF match_token(expression.p, {"Comma"})
            THEN ExpressionListLoop(Parser_advance(expression.p),
                                    Append(expressions, expression.v))
            ELSE POk(Append(expressions, expression.v), expression.p))

parse_expression_list(P) ==
    IF ~check(P, "RightParen") THEN ExpressionListLoop(P, <<>>) ELSE POk(<<>>, P)

\* the parenthesised arguments of a command, or none
Arguments(P) ==
    IF check(P, "LeftParen")
    THEN Try(consume(P, "LeftParen", "Expected '('"),
             LAMBDA lp :
                 Try(parse_expression_list(lp.p),
                     LAMBDA args :
                         Try(consume(args.p, "RightParen", "Expected ')'"),
                             LAMBDA rp : POk(args.v, rp.p))))
    ELSE POk(<<>>, P)

parse_command(P) ==
    Try(consume_identifier(P, "Expected command name"),
        LAMBDA name :
            Try(Arguments(name.p),
                LAMBDA arguments : POk(Command(name.v, arguments.v), arguments.p)))

RECURSIVE parse_step(_)
RECURSIVE StepsLoop(_, _)
RECURSIVE parse_conditional_statement(_)

\* a loop that parses a step before it tests for the closing brace
RECURSIVE StepsLoop_do_while(_, _)
StepsLoop_do_while(P, steps) ==
    Try(parse_step(P),
        LAMBDA step :
            IF ~check(step.p, "RightBrace") /\ ~Parser_is_at_end(step.p)
            THEN StepsLoop_do_while(step.p, Append(steps, step.v))
            ELSE POk(Append(steps, step.v), step.p))

\* `while !check(RightBrace) && !is_at_end() { steps.push(parse_step()?) }`
StepsLoop(P, steps) ==
    IF ~check(P, "RightBrace") /\ ~Parser_is_at_end(P)
    THEN Try(parse_step(P), LAMBDA step : StepsLoop(step.p, Append(steps, step.v)))
    ELSE POk(steps, P)

\* `{ step* }` with the two messages of the braces
Block(P, openMessage, closeMessage) ==
    Try(consume(P, "LeftBrace", openMessage),
        LAMBDA lb :
            Try(StepsLoop(lb.p, <<>>),
                LAMBDA body :
                    Try(consume(body.p, "RightBrace", closeMessage),
                        LAMBDA rb : POk(body.v, rb.p))))

\* the optional else block
ElseBlock(P) ==
    IF check(P, "Else")
    THEN Try(Block(Parser_advance(P), "Expected '{' after 'else'",
                   "Expected '}' after else block"),
             LAMBDA steps : POk(Some(steps.v), steps.p))
    ELSE POk(None, P)

parse_conditional_statement(P) ==
    Try(consume(P, "If", "Expected 'if'"), LAMBDA kw :
    Try(consume(kw.p, "LeftParen", "Expected '(' after 'if'"), LAMBDA lp :
    Try(parse_expression(lp.p), LAMBDA condition :
    Try(consume(condition.p, "RightParen", "Expected ')' after condition"), LAMBDA rp :
    Try(Block(rp.p, "Expected '{' after condition", "Expected '}' after if block"),
        LAMBDA if_steps :
    Try(ElseBlock(if_steps.p), LAMBDA else_steps :
        POk(ConditionalStatement(condition.v, if_steps.v, else_steps.v),
            else_steps.p)))))))

parse_step(P) ==
    Try(consume(P, "Step", "Expected 'step'"), LAMBDA kw :
    Try(consume_number(kw.p, "Expected step number"), LAMBDA id :
    Try(consume(id.p, "Colon", "Expected ':' after step number"), LAMBDA colon :
    Try(IF check(colon.p, "If")
        THEN parse_conditional_statement(colon.p)
        ELSE parse_command(colon.p),
        LAMBDA content : POk(Step(f64_as_u32(id.v), content.v), content.p)))))

parse_workflow(P) ==
    Try(consume(P, "Workflow", "Expected 'workflow'"), LAMBDA kw :
    Try(consume_string(kw.p, "Expected workflow name"), LAMBDA name :
    Try(Block(name.p, "Expected '{' after workflow name",
              "Expected '}' after workflow body"),
        LAMBDA steps : POk(Workflow(name.v, steps.v), steps.p))))

DeclarationKeyword(token_type) ==
    CASE token_type = "Let" -> "let"
      [] token_type = "Var" -> "var"
      [] token_type = "Const" -> "const"

parse_variable_declaration(P) ==
    IF Parser_peek(P).token_type \notin {"Let", "Var", "Const"}
    THEN Err("Expected variable declaration keyword")
    ELSE
    Try(consume_identifier(Parser_advance(P), "Expected variable name"), LAMBDA name :
    Try(consume(name.p, "Equal", "Expected '=' after variable name"), LAMBDA eq :
    Try(parse_expression(eq.p), LAMBDA value :
        POk(VariableDeclaration(DeclarationKeyword(Parser_peek(P).token_type),
                                name.v, value.v),
            value.p))))

\* the while loop of Parser::parse
RECURSIVE ParseLoop(_, _, _)
ParseLoop(P, workflows, variables) ==
    IF Parser_is_at_end(P)
    THEN Ok(Program(workflows, variables))
    ELSE CASE Parser_peek(P).token_type = "Workflow" ->
                Try(parse_workflow(P),
                    LAMBDA workflow :
                        ParseLoop(workflow.p, Append(workflows, workflow.v), variables))
           [] Parser_peek(P).token_type \in {"Let", "Var", "Const"} ->
                Try(parse_variable_declaration(P),
                    LAMBDA variable :
                        ParseLoop(variable.p, workflows, Append(variables, variable.v)))
           [] OTHER -> Err("Expected workflow or variable declaration")

\* a parse that stops at the first fault and returns what it has so far
RECURSIVE ParseLoopPartial(_, _, _)
ParseLoopPartial(P, workflows, variables) ==
    IF Parser_is_at_end(P)
    THEN Ok(Program(workflows, variables))
    ELSE CASE Parser_peek(P).token_type = "Workflow" ->
                IF parse_workflow(P).ok
                THEN ParseLoopPartial(parse_workflow(P).p,
                                      Append(workflows, parse_workflow(P).v), variables)
                ELSE Ok(Program(workflows, variables))
           [] Parser_peek(P).token_type \in {"Let", "Var", "Const"} ->
                IF parse_variable_declaration(P).ok
                THEN ParseLoopPartial(parse_variable_declaration(P).p, workflows,
                                      Append(variables, parse_variable_declaration(P).v))
                ELSE Ok(Program(workflows, variables))
           [] OTHER -> Ok(Program(workflows, variables))

parse_partial(tokens) == ParseLoopPartial(Parser_new(tokens), <<>>, <<>>)

\* Parser::parse
parse(tokens) == ParseLoop(Parser_new(tokens), <<>>, <<>>)

(***************************************************************************)
(* Executor (executor.rs).  An executor E is [variables, step_results];    *)
(* both maps are functions whose domain is the set of keys present.        *)
(***************************************************************************)
StepResult_new(success, data, status, message) ==
    [success |-> success, data |-> data, status |-> status, message |-> message]

EmptyMap == <<>>

\* `entry(key).or_insert(value)`: a value already under key is kept
insert_if_absent(map, key, value) ==
    [k \in DOMAIN map \cup {key} |->
        IF k \in DOMAIN map THEN map[k] ELSE value]

\* HashMap::insert: the value under key is replaced, every other key is kept
insert(map, key, value) ==
    [k \in DOMAIN map \cup {key} |-> IF k = key THEN value ELSE map[k]]

Executor_new == [variables |-> EmptyMap, step_results |-> EmptyMap]

\* an evaluate_expression without the match on the operator: every operator
\* concatenates
RECURSIVE evaluate_expression_lenient(_, _)
evaluate_expression_lenient(E, expression) ==
    CASE expression.type = "StringLiteral" -> Ok(expression.value)
      [] expression.type = "NumberLiteral" -> Ok(f64_to_string(expression.value))
      [] expression.type = "Identifier" ->
           IF expression.name \in DOMAIN E.variables
           THEN Ok(E.variables[expression.name])
           ELSE Err("Undefined variable: " \o expression.name)
      [] expression.type = "BinaryExpression" ->
           LET left_val == evaluate_expression_lenient(E, expression.left)
               right_val == evaluate_expression_lenient(E, expression.right)
           IN  IF ~left_val.ok THEN left_val
               ELSE IF ~right_val.ok THEN right_val
               ELSE Ok(left_val.v \o right_val.v)
      [] expression.type = "PropertyAccess" ->
           LET object_val == evaluate_expression_lenient(E, expression.object)
           IN  IF ~object_val.ok THEN object_val
               ELSE Ok(object_val.v \o "." \o expression.property)
      [] expression.type = "StepReference" ->
           IF expression.step_id \in DOMAIN E.step_results
           THEN LET result == E.step_results[expression.step_id]
                    property == expression.property
                IN  CASE property = Some("status") -> Ok(u32_to_string(result.status))
                      [] property = Some("data") -> Ok(result.data)
                      [] property = Some("message") -> Ok(result.message)
                      [] property = Some("success") -> Ok(bool_to_string(result.success))
                      [] OTHER -> Ok(result.data)
           ELSE Err("Step " \o u32_to_string(expression.step_id) \o " not found")

\* an evaluate_expression that refuses a property it does not know
RECURSIVE evaluate_expression_strict(_, _)
evaluate_expression_strict(E, expression) ==
    CASE expression.type = "StringLiteral" -> Ok(expression.value)
      [] expression.type = "NumberLiteral" -> Ok(f64_to_string(expression.value))
      [] expression.type = "Identifier" ->
           IF expression.name \in DOMAIN E.variables
           THEN Ok(E.variables[expression.name])
           ELSE Err("Undefined variable: " \o expression.name)
      [] expression.type = "BinaryExpression" ->
           LET left_val == evaluate_expression_strict(E, expression.left)
               right_val == evaluate_expression_strict(E, expression.right)
           IN  IF ~left_val.ok THEN left_val
               ELSE IF ~right_val.ok THEN right_val
               ELSE IF expression.operator = "+"
               THEN Ok(left_val.v \o right_val.v)
               ELSE Err("Unknown binary operator: " \o expression.operator)
      [] expression.type = "PropertyAccess" ->
           LET object_val == evaluate_expression_strict(E, expression.object)
           IN  IF ~object_val.ok THEN object_val
               ELSE Ok(object_val.v \o "." \o expression.property)
      [] expression.type = "StepReference" ->
           IF expression.step_id \in DOMAIN E.step_results
           THEN LET result == E.step_results[expression.step_id]
                    property == expression.property
                IN  CASE property = Some("status") -> Ok(u32_to_string(result.status))
                      [] property = Some("data") -> Ok(result.data)
                      [] property = Some("message") -> Ok(result.message)
                      [] property = Some("success") -> Ok(bool_to_string(result.success))
                      [] property = None -> Ok(result.data)
                      [] OTHER -> Err("Unknown property: " \o Unwrap(property))
           ELSE Err("Step " \o u32_to_string(expression.step_id) \o " not found")

\* Executor::evaluate_expression
RECURSIVE evaluate_expression(_, _)
evaluate_expression(E, expression) ==
    CASE expression.type = "StringLiteral" -> Ok(expression.value)
      [] expression.type = "NumberLiteral" -> Ok(f64_to_string(expression.value))
      [] expression.type = "Identifier" ->
           IF expression.name \in DOMAIN E.variables
           THEN Ok(E.variables[expression.name])
           ELSE Err("Undefined variable: " \o expression.name)
      [] expression.type = "BinaryExpression" ->
           LET left_val == evaluate_expression(E, expression.left)
               right_val == evaluate_expression(E, expression.right)
           IN  IF ~left_val.ok THEN left_val
               ELSE IF ~right_val.ok THEN right_val
               ELSE IF expression.operator = "+"
               THEN Ok(left_val.v \o right_val.v)
               ELSE Err("Unknown binary operator: " \o expression.operator)
      [] expression.type = "PropertyAccess" ->
           LET object_val == evaluate_expression(E, expression.object)
           IN  IF ~object_val.ok THEN object_val
               ELSE Ok(object_val.v \o "." \o expression.property)
      [] expression.type = "StepReference" ->
           IF expression.step_id \in DOMAIN E.step_results
           THEN LET result == E.step_results[expression.step_id]
                    property == expression.property
                IN  CASE property = Some("status") -> Ok(u32_to_string(result.status))
                      [] property = Some("data") -> Ok(result.data)
                      [] property = Some("message") -> Ok(result.message)
                      [] property = Some("success") -> Ok(bool_to_string(result.success))
                      [] OTHER -> Ok(result.data)
           ELSE Err("Step " \o u32_to_string(expression.step_id) \o " not found")

\* `s.parse::<u32>()` in place of `s.parse::<f64>()`: only digit strings count
parse_or_zero_integer(s) ==
    IF s # "" /\ DigitRunEnd(s, 0) = Len(s)
    THEN F64(DigitsValue(s, 0, Len(s)), 0)
    ELSE F64Zero

\* `s.parse().unwrap_or(0.0)`
parse_or_zero(s) == IF IsSome(parse_f64(s)) THEN Unwrap(parse_f64(s)) ELSE F64Zero

\* an evaluate_condition whose == and != compare numbers as numbers
evaluate_condition_coercing(E, condition) ==
    IF condition.type = "BinaryExpression"
    THEN LET left_val == evaluate_expression(E, condition.left)
             right_val == evaluate_expression(E, condition.right)
             operator == condition.operator
             equal == IF IsSome(parse_f64(left_val.v)) /\ IsSome(parse_f64(right_val.v))
                      THEN Unwrap(parse_f64(left_val.v)) = Unwrap(parse_f64(right_val.v))
                      ELSE left_val.v = right_val.v
         IN  IF ~left_val.ok THEN left_val
             ELSE IF ~right_val.ok THEN right_val
             ELSE CASE operator = "==" -> Ok(equal)
                    [] operator = "!=" -> Ok(~equal)
                    [] operator = ">" ->
                         Ok(f64_gt(parse_or_zero(left_val.v), parse_or_zero(right_val.v)))
                    [] operator = "<" ->
                         Ok(f64_lt(parse_or_zero(left_val.v), parse_or_zero(right_val.v)))
                    [] operator = ">=" ->
                         Ok(f64_ge(parse_or_zero(left_val.v), parse_or_zero(right_val.v)))
                    [] operator = "<=" ->
                         Ok(f64_le(parse_or_zero(left_val.v), parse_or_zero(right_val.v)))
                    [] OTHER -> Err("Unknown comparison operator: " \o operator)
    ELSE LET value == evaluate_expression(E, condition)
         IN  IF ~value.ok THEN value
             ELSE Ok(value.v # "" /\ value.v # "0" /\ value.v # "false")

\* Executor::evaluate_condition
evaluate_condition(E, condition) ==
    IF condition.type = "BinaryExpression"
    THEN LET left_val == evaluate_expression(E, condition.left)
             right_val == evaluate_expression(E, condition.right)
             operator == condition.operator
         IN  IF ~left_val.ok THEN left_val
             ELSE IF ~right_val.ok THEN right_val
             ELSE CASE operator = "==" -> Ok(left_val.v = right_val.v)
                    [] operator = "!=" -> Ok(left_val.v # right_val.v)
                    [] operator = ">" ->
                         Ok(f64_gt(parse_or_zero(left_val.v), parse_or_zero(right_val.v)))
                    [] operator = "<" ->
                         Ok(f64_lt(parse_or_zero(left_val.v), parse_or_zero(right_val.v)))
                    [] operator = ">=" ->
                         Ok(f64_ge(parse_or_zero(left_val.v), parse_or_zero(right_val.v)))
                    [] operator = "<=" ->
                         Ok(f64_le(parse_or_zero(left_val.v), parse_or_zero(right_val.v)))
                    [] OTHER -> Err("Unknown comparison operator: " \o operator)
    ELSE LET value == evaluate_expression(E, condition)
         IN  IF ~value.ok THEN value
             ELSE Ok(value.v # "" /\ value.v # "0" /\ value.v # "false")

\* `arguments.iter().map(evaluate_expression).collect::<Result<Vec<String>>>()`:
\* the values in order, or the first error
RECURSIVE evaluate_arguments(_, _)
evaluate_arguments(E, arguments) ==
    IF arguments = <<>> THEN Ok(<<>>)
    ELSE LET first == evaluate_expression(E, Head(arguments))
             rest == evaluate_arguments(E, Tail(arguments))
         IN  IF ~first.ok THEN first
             ELSE IF ~rest.ok THEN rest
             ELSE Ok(<<first.v>> \o rest.v)

\* `args.concat()`: the separator is dropped
RECURSIVE join_concat(_, _)
join_concat(args, sep) ==
    IF args = <<>> THEN "" ELSE args[1] \o join_concat(Tail(args), sep)

\* `args.join(" ")`
RECURSIVE join(_, _)
join(args, sep) ==
    IF args = <<>> THEN ""
    ELSE IF Len(args) = 1 THEN args[1]
    ELSE args[1] \o sep \o join(Tail(args), sep)

\* `args.get(i).unwrap_or(&default)`
get_or(args, i, default) == IF i < Len(args) THEN args[i + 1] ELSE default

\* the match on command.name in execute_command: the StepResult stored
command_result(name, args) ==
    CASE name = "print" ->
           StepResult_new(TRUE, join(args, " "), 200, "Print executed successfully")
      [] name = "log" ->
           StepResult_new(TRUE, join(args, " "), 200, "Log executed successfully")
      [] name = "fetch" ->
           StepResult_new(TRUE,
               "{\"data\": \"Sample data from "
                   \o get_or(args, 0, "https://api.example.com") \o "\"}",
               200, "Fetch completed successfully")
      [] name = "send_email" ->
           StepResult_new(TRUE, "Email sent to " \o get_or(args, 0, "user@example.com"),
               200, "Email sent successfully")
      [] name = "notify" ->
           StepResult_new(TRUE, join(args, " "), 200, "Notification sent successfully")
      [] name = "input" ->
           StepResult_new(TRUE,
               "{\"variable\": \"" \o get_or(args, 0, "user_input")
                   \o "\", \"type\": \"" \o get_or(args, 1, "text")
                   \o "\", \"placeholder\": \"" \o get_or(args, 2, "Enter value") \o "\"}",
               200, "Input collected successfully")
      [] name = "generate" ->
           StepResult_new(TRUE,
               "{\"content\": \"Generated content for: "
                   \o get_or(args, 0, "Generate content")
                   \o "\", \"model\": \"" \o get_or(args, 1, "mistral-small-latest")
                   \o "\", \"temperature\": \"" \o get_or(args, 2, "0.7") \o "\"}",
               200, "Content generated successfully")
      [] name = "output" ->
           StepResult_new(TRUE,
               "{\"exported\": \"" \o get_or(args, 0, "data")
                   \o "\", \"format\": \"" \o get_or(args, 1, "text")
                   \o "\", \"file\": \"" \o get_or(args, 2, "output") \o "\"}",
               200, "Output exported successfully")
      [] name = "transform" ->
           StepResult_new(TRUE,
               "{\"transformed\": \"" \o get_or(args, 0, "data")
                   \o "\", \"type\": \"" \o get_or(args, 1, "format") \o "\"}",
               200, "Data transformed successfully")
      [] name = "validate" ->
           StepResult_new(TRUE,
               "{\"validated\": \"" \o get_or(args, 0, "data")
                   \o "\", \"type\": \"" \o get_or(args, 1, "required")
                   \o "\", \"valid\": true}",
               200, "Validation completed successfully")
      [] OTHER ->
           StepResult_new(FALSE, "", 400, "Unknown command: " \o name)

\* an execute_variable that refuses a name already bound
execute_variable_no_redeclare(E, variable) ==
    LET value == evaluate_expression(E, variable.value)
    IN  IF ~value.ok THEN value
        ELSE IF variable.name \in DOMAIN E.variables
        THEN Err("Variable already declared: " \o variable.name)
        ELSE Ok([E EXCEPT !.variables = insert(@, variable.name, value.v)])

\* execute_variable: Ok(executor after) or the error of the value expression
execute_variable(E, variable) ==
    LET value == evaluate_expression(E, variable.value)
    IN  IF ~value.ok THEN value
        ELSE Ok([E EXCEPT !.variables = insert(@, variable.name, value.v)])

\* an execute_command whose default arm returns an error instead of a result
execute_command_strict(E, step_id, command) ==
    LET args == evaluate_arguments(E, command.arguments)
    IN  IF ~args.ok THEN args
        ELSE IF command_result(command.name, args.v).status = 400
        THEN Err("Unknown command: " \o command.name)
        ELSE Ok([E EXCEPT !.step_results =
                     insert(@, step_id, command_result(command.name, args.v))])

\* execute_command: Ok(executor after) or the first error of the arguments
execute_command(E, step_id, command) ==
    LET args == evaluate_arguments(E, command.arguments)
    IN  IF ~args.ok THEN args
        ELSE Ok([E EXCEPT !.step_results =
                     insert(@, step_id, command_result(command.name, args.v))])

(***************************************************************************)
(* State.  One Executor (variables, step_results) and, for run_dsl, the    *)
(* pipeline in front of it.  execute walks the Program depth first; todo   *)
(* is the rest of that walk: the declarations, workflows and steps still   *)
(* to be executed, in order.  An item's path is its place in the Program:  *)
(* <<0, i>> the i-th top-level declaration, <<j>> the j-th workflow,       *)
(* <<j, k>> its k-th step, and p \o <<1, m>> / p \o <<2, m>> the m-th step *)
(* of the if / else branch of the Conditional at p.  history records, for  *)
(* every call of execute on this Executor, what has completed so far.      *)
(***************************************************************************)
VARIABLES source, tokens, program, pc, error, variables, step_results,
          todo, history, runs, peer

vars == <<source, tokens, program, pc, error, variables, step_results,
          todo, history, runs, peer>>

Item(kind, node, path) == [kind |-> kind, node |-> node, path |-> path]

\* a walk that lists every step of a sequence twice
StepItems_twice(steps, prefix) ==
    [i \in 1..(2 * Len(steps)) |->
        Item("step", steps[(i + 1) \div 2], prefix \o <<(i + 1) \div 2>>)]

StepItems(steps, prefix) ==
    [m \in 1..Len(steps) |-> Item("step", steps[m], prefix \o <<m>>)]

\* the two loops of Executor::execute in the other order
execute_items_workflows_first(prog) ==
    [j \in 1..Len(prog.workflows) |-> Item("workflow", prog.workflows[j], <<j>>)]
    \o [i \in 1..Len(prog.variables) |-> Item("variable", prog.variables[i], <<0, i>>)]

\* the two loops of Executor::execute
execute_items(prog) ==
    [i \in 1..Len(prog.variables) |-> Item("variable", prog.variables[i], <<0, i>>)]
    \o [j \in 1..Len(prog.workflows) |-> Item("workflow", prog.workflows[j], <<j>>)]

\* execute_workflow iterates workflow.variables, a field that ast.rs does not
\* declare and parse_workflow never fills: a Workflow has no declarations
workflow_variables(workflow) ==
    IF "variables" \in DOMAIN workflow THEN workflow.variables ELSE <<>>

\* the two loops of execute_workflow
workflow_items(workflow, path) ==
    [i \in 1..Len(workflow_variables(workflow)) |->
        Item("variable", workflow_variables(workflow)[i], path \o <<0, i>>)]
    \o StepItems(workflow.steps, path)

\* an execute_conditional that runs the else block after the if block
branch_items_both(conditional, taken, path) ==
    (IF taken THEN StepItems(conditional.if_steps, path \o <<1>>) ELSE <<>>)
    \o (IF IsSome(conditional.else_steps)
        THEN StepItems(Unwrap(conditional.else_steps), path \o <<2>>)
        ELSE <<>>)

\* the steps execute_conditional runs when the condition evaluated to taken
branch_items(conditional, taken, path) ==
    IF taken
    THEN StepItems(conditional.if_steps, path \o <<1>>)
    ELSE IF IsSome(conditional.else_steps)
         THEN StepItems(Unwrap(conditional.else_steps), path \o <<2>>)
         ELSE <<>>

Event(kind, path, id, name, values) ==
    [run |-> runs, kind |-> kind, path |-> path, id |-> id, name |-> name,
     values |-> values]

self == [variables |-> variables, step_results |-> step_results]

\* a second Executor of the same process, the Program it was handed and where
\* its call of execute stands
Instance(prog, at, err, E, items) ==
    [program |-> prog, pc |-> at, error |-> err, variables |-> E.variables,
     step_results |-> E.step_results, todo |-> items]

Init ==
    /\ source = ""
    /\ tokens = <<>>
    /\ program = Program(<<>>, <<>>)
    /\ pc = "idle"
    /\ error = None
    /\ variables = EmptyMap
    /\ step_results = EmptyMap
    /\ todo = <<>>
    /\ history = <<>>
    /\ runs = 0
    /\ peer = Instance(Program(<<>>, <<>>), "idle", None, Executor_new, <<>>)

\* `let _ = ...` in place of `?`: the error is dropped and the walk goes on
Fail_ignored(msg) ==
    /\ pc' = IF Tail(todo) = <<>> THEN "done" ELSE "running"
    /\ error' = None
    /\ todo' = Tail(todo)

\* the `?` of a failed evaluation: execute returns the error, the walk is dropped
Fail(msg) ==
    /\ pc' = "failed"
    /\ error' = Some(msg)
    /\ todo' = <<>>

\* the walk goes on with rest, or execute returns Ok(()) when nothing is left
Continue(rest) ==
    /\ todo' = rest
    /\ pc' = IF rest = <<>> THEN "done" ELSE "running"
    /\ error' = None

(***************************************************************************)
(* run_dsl (lib.rs): tokenize, parse, then execute on a new Executor       *)
(***************************************************************************)
Tokenize(src) ==
    /\ pc = "idle"
    /\ source' = src
    /\ LET r == tokenize(src)
       IN  IF r.ok
           THEN tokens' = r.v /\ pc' = "tokenized" /\ error' = None
           ELSE tokens' = <<>> /\ pc' = "lex_failed" /\ error' = Some(r.msg)
    /\ UNCHANGED <<program, variables, step_results, todo, history, runs, peer>>

Parse ==
    /\ pc = "tokenized"
    /\ LET r == parse(tokens)
       IN  IF r.ok
           THEN program' = r.v /\ pc' = "parsed" /\ error' = None
           ELSE program' = program /\ pc' = "parse_failed" /\ error' = Some(r.msg)
    /\ UNCHANGED <<source, tokens, variables, step_results, todo, history, runs, peer>>

(***************************************************************************)
(* parse_dsl (lib.rs): tokenize, then parse; the Program is returned       *)
(***************************************************************************)
TokenizeOnly(src) ==
    /\ pc = "idle"
    /\ source' = src
    /\ LET r == tokenize(src)
       IN  IF r.ok
           THEN tokens' = r.v /\ pc' = "parse_dsl" /\ error' = None
           ELSE tokens' = <<>> /\ pc' = "lex_failed" /\ error' = Some(r.msg)
    /\ UNCHANGED <<program, variables, step_results, todo, history, runs, peer>>

ParseOnly ==
    /\ pc = "parse_dsl"
    /\ LET r == parse(tokens)
       IN  IF r.ok
           THEN program' = r.v /\ pc' = "ast" /\ error' = None
           ELSE program' = program /\ pc' = "parse_failed" /\ error' = Some(r.msg)
    /\ UNCHANGED <<source, tokens, variables, step_results, todo, history, runs, peer>>

\* Executor::new() followed by the entry of execute(&ast)
ExecuteParsed ==
    /\ pc = "parsed"
    /\ variables' = Executor_new.variables
    /\ step_results' = Executor_new.step_results
    /\ runs' = runs + 1
    /\ Continue(execute_items(program))
    /\ UNCHANGED <<source, tokens, program, history, peer>>

(***************************************************************************)
(* Executor::new() and execute(&program) on a Program built by the caller  *)
(***************************************************************************)
Execute(prog) ==
    /\ pc = "idle"
    /\ program' = prog
    /\ variables' = Executor_new.variables
    /\ step_results' = Executor_new.step_results
    /\ runs' = runs + 1
    /\ Continue(execute_items(prog))
    /\ UNCHANGED <<source, tokens, history, peer>>

(***************************************************************************)
(* The steps of the walk                                                   *)
(***************************************************************************)
ExecuteVariable ==
    /\ pc = "running"
    /\ Head(todo).kind = "variable"
    /\ LET variable == Head(todo).node
           r == execute_variable(self, variable)
       IN  IF r.ok
           THEN /\ variables' = r.v.variables
                /\ history' = Append(history,
                       Event("variable", Head(todo).path, 0, variable.name,
                             <<r.v.variables[variable.name]>>))
                /\ Continue(Tail(todo))
           ELSE /\ Fail(r.msg)
                /\ UNCHANGED <<variables, history>>
    /\ UNCHANGED <<source, tokens, program, step_results, runs, peer>>

ExecuteWorkflow ==
    /\ pc = "running"
    /\ Head(todo).kind = "workflow"
    /\ history' = Append(history,
           Event("workflow", Head(todo).path, 0, Head(todo).node.name, <<>>))
    /\ Continue(workflow_items(Head(todo).node, Head(todo).path) \o Tail(todo))
    /\ UNCHANGED <<source, tokens, program, variables, step_results, runs, peer>>

ExecuteCommand ==
    /\ pc = "running"
    /\ Head(todo).kind = "step"
    /\ Head(todo).node.content.type = "Command"
    /\ LET step == Head(todo).node
           r == execute_command(self, step.id, step.content)
       IN  IF r.ok
           THEN /\ step_results' = r.v.step_results
                /\ history' = Append(history,
                       Event("command", Head(todo).path, step.id, step.content.name,
                             evaluate_arguments(self, step.content.arguments).v))
                /\ Continue(Tail(todo))
           ELSE /\ Fail(r.msg)
                /\ UNCHANGED <<step_results, history>>
    /\ UNCHANGED <<source, tokens, program, variables, runs, peer>>

\* an execute_conditional that stores the outcome of the condition under the
\* id of the Conditional step
ExecuteConditional_recording ==
    /\ pc = "running"
    /\ Head(todo).kind = "step"
    /\ Head(todo).node.content.type = "Conditional"
    /\ LET step == Head(todo).node
           r == evaluate_condition(self, step.content.condition)
       IN  IF r.ok
           THEN /\ history' = Append(history,
                       Event("conditional", Head(todo).path, step.id,
                             IF r.v THEN "if" ELSE "else", <<>>))
                /\ step_results' = insert(step_results, step.id,
                       StepResult_new(r.v, "", 200, "Condition evaluated"))
                /\ Continue(branch_items(step.content, r.v, Head(todo).path)
                            \o Tail(todo))
           ELSE /\ Fail(r.msg)
                /\ UNCHANGED <<history, step_results>>
    /\ UNCHANGED <<source, tokens, program, variables, runs, peer>>

ExecuteConditional ==
    /\ pc = "running"
    /\ Head(todo).kind = "step"
    /\ Head(todo).node.content.type = "Conditional"
    /\ LET step == Head(todo).node
           r == evaluate_condition(self, step.content.condition)
       IN  IF r.ok
           THEN /\ history' = Append(history,
                       Event("conditional", Head(todo).path, step.id,
                             IF r.v THEN "if" ELSE "else", <<>>))
                /\ Continue(branch_items(step.content, r.v, Head(todo).path)
                            \o Tail(todo))
           ELSE /\ Fail(r.msg)
                /\ UNCHANGED history
    /\ UNCHANGED <<source, tokens, program, variables, step_results, runs, peer>>

Walk == ExecuteVariable \/ ExecuteWorkflow \/ ExecuteCommand \/ ExecuteConditional

(***************************************************************************)
(* Bounded inputs                                                          *)
(***************************************************************************)
MaxVars == 2        \* top-level declarations of a Program handed to execute
MaxSteps == 2       \* top-level steps of a Program handed to execute
MaxWorkflows == 2   \* workflows of a Program handed to execute
MaxSrcSteps == 2    \* step snippets in the workflow body of a source text
MaxRuns == 2        \* calls of execute on one Executor

\* all sequences over S of length at most n
RECURSIVE SeqsUpTo(_, _)
SeqsUpTo(S, n) ==
    IF n = 0 THEN {<<>>}
    ELSE LET shorter == SeqsUpTo(S, n - 1)
         IN  shorter \cup {Append(q, x) : q \in shorter, x \in S}

Status200 == BinaryExpression(StepReference(1, Some("status")), "==",
                              NumberLiteral(F64(200, 0)))

VarPool ==
    { VariableDeclaration("let", "a", StringLiteral("x")),
      VariableDeclaration("var", "b", BinaryExpression(Identifier("a"), "+",
                                                       StringLiteral("y"))),
      VariableDeclaration("const", "a",
          BinaryExpression(NumberLiteral(F64(1, 0)), "==", NumberLiteral(F64(2, 0)))) }

PrintOk == Step(4, Command("print", <<StringLiteral("ok")>>))
PrintBad == Step(5, Command("print", <<StringLiteral("bad")>>))
LogMessage == Step(1, Command("log", <<StepReference(1, Some("message")),
                                       StepReference(1, None)>>))
LogLess == Step(2, Command("log", <<BinaryExpression(StringLiteral("x"), "<",
                                                     StringLiteral("y"))>>))
Fetch == Step(1, Command("fetch", <<StringLiteral("u")>>))
FetchDefault == Step(1, Command("fetch", <<>>))
IfStatus200 ==
    Step(3, ConditionalStatement(Status200, <<PrintOk, LogMessage>>,
                                 Some(<<LogMessage, LogLess, PrintBad>>)))
IfPlus ==
    Step(7, ConditionalStatement(
                BinaryExpression(StringLiteral("a"), "+", StringLiteral("b")),
                <<PrintOk>>, None))

StepPool ==
    { Fetch,
      FetchDefault,
      Step(1, Command("print", <<Identifier("a"), StringLiteral("y")>>)),
      Step(1, Command("bogus", <<StringLiteral("z")>>)),
      Step(2, Command("notify", <<>>)),
      IfStatus200,
      Step(6, ConditionalStatement(StepReference(1, None),
                  <<Step(2, Command("notify", <<StringLiteral("n"),
                                              StepReference(1, Some("success"))>>)),
                    IfPlus>>,
                  None)),
      Step(8, ConditionalStatement(Identifier("a"),
                  <<Step(9, ConditionalStatement(NumberLiteral(F64(0, 1)),
                                <<LogMessage>>,
                                Some(<<Step(2, Command("send_email", <<>>)),
                                       Step(9, ConditionalStatement(
                                                   PropertyAccess(Identifier("a"), "p"),
                                                   <<PrintBad>>, None))>>))),
                    PrintOk>>,
                  Some(<<Step(1, Command("validate", <<Identifier("b")>>))>>))) }

\* the ways to cut steps into at most MaxWorkflows consecutive workflows
RECURSIVE Cuts(_, _)
Cuts(steps, n) ==
    IF n = 0 THEN IF steps = <<>> THEN {<<>>} ELSE {}
    ELSE (IF steps = <<>> THEN {<<>>} ELSE {})
         \cup UNION { { <<Workflow("W" \o ToString(n), SubSeq(steps, 1, k))>> \o rest :
                            rest \in Cuts(SubSeq(steps, k + 1, Len(steps)), n - 1) } :
                       k \in 0..Len(steps) }

Programs ==
    { Program(ws, vs) :
        vs \in SeqsUpTo(VarPool, MaxVars),
        ws \in UNION { Cuts(steps, MaxWorkflows) : steps \in SeqsUpTo(StepPool, MaxSteps) } }

\* a caller hands execute a Program
Call == pc = "idle" /\ \E prog \in Programs : Execute(prog)

Next == Call \/ Walk

Spec == Init /\ [][Next]_vars

(***************************************************************************)
(* execute called again on the same Executor: nothing in execute clears    *)
(* variables or step_results                                               *)
(***************************************************************************)
ReusePrograms ==
    { Program(ws, vs) :
        vs \in SeqsUpTo(VarPool, 1),
        ws \in {<<>>} \cup { <<Workflow("W", steps)>> : steps \in SeqsUpTo(StepPool, 1) } }

ExecuteAgain(prog) ==
    /\ runs < MaxRuns
    /\ program' = prog
    /\ runs' = runs + 1
    /\ Continue(execute_items(prog))
    /\ UNCHANGED <<source, tokens, variables, step_results, history, peer>>

CallFirst == pc = "idle" /\ \E prog \in ReusePrograms : Execute(prog)
CallAgain == pc \in {"done", "failed"} /\ \E prog \in ReusePrograms : ExecuteAgain(prog)

NextReuse == CallFirst \/ CallAgain \/ Walk

SpecReuse == Init /\ [][NextReuse]_vars

(***************************************************************************)
(* Two Executor instances, each running execute on a Program of its own,   *)
(* their steps interleaved.  The fields of an Executor are two HashMaps it *)
(* owns; executor.rs has no static and no shared reference.                *)
(***************************************************************************)
\* Executor::new() followed by the entry of execute(&prog)
Begin(prog) ==
    LET items == execute_items(prog)
    IN  Instance(prog, IF items = <<>> THEN "done" ELSE "running", None,
                 Executor_new, items)

\* the walk of X goes on with rest, or its execute returns Ok(())
Goes(X, rest) ==
    [X EXCEPT !.todo = rest, !.pc = IF rest = <<>> THEN "done" ELSE "running"]

\* the `?` of a failed evaluation in X
Stops(X, msg) ==
    [X EXCEPT !.todo = <<>>, !.pc = "failed", !.error = Some(msg)]

\* one step of the walk of instance X, on the tables of X alone
execute_next(X) ==
    LET item == Head(X.todo)
        E == [variables |-> X.variables, step_results |-> X.step_results]
    IN  IF item.kind = "variable"
        THEN LET r == execute_variable(E, item.node)
             IN  IF r.ok
                 THEN Goes([X EXCEPT !.variables = r.v.variables], Tail(X.todo))
                 ELSE Stops(X, r.msg)
        ELSE IF item.kind = "workflow"
        THEN Goes(X, workflow_items(item.node, item.path) \o Tail(X.todo))
        ELSE IF item.node.content.type = "Command"
        THEN LET r == execute_command(E, item.node.id, item.node.content)
             IN  IF r.ok
                 THEN Goes([X EXCEPT !.step_results = r.v.step_results], Tail(X.todo))
                 ELSE Stops(X, r.msg)
        ELSE LET r == evaluate_condition(E, item.node.content.condition)
             IN  IF r.ok
                 THEN Goes(X, branch_items(item.node.content, r.v, item.path)
                              \o Tail(X.todo))
                 ELSE Stops(X, r.msg)

\* execute of X run to its return with nothing else running
RECURSIVE Finish(_)
Finish(X) == IF X.pc = "running" THEN Finish(execute_next(X)) ELSE X

RunAlone(prog) == Finish(Begin(prog))

\* a caller hands the second Executor a Program
PeerCall ==
    /\ peer.pc = "idle"
    /\ \E prog \in ReusePrograms : peer' = Begin(prog)
    /\ UNCHANGED <<source, tokens, program, pc, error, variables, step_results,
                   todo, history, runs>>

\* a walk in which both instances read and write one pair of tables
PeerWalk_shared ==
    /\ peer.pc = "running"
    /\ LET X == execute_next([peer EXCEPT !.variables = variables,
                                          !.step_results = step_results])
       IN  /\ peer' = X
           /\ variables' = X.variables
           /\ step_results' = X.step_results
    /\ UNCHANGED <<source, tokens, program, pc, error, todo, history, runs>>

\* the second Executor takes one step of its walk
PeerWalk ==
    /\ peer.pc = "running"
    /\ peer' = execute_next(peer)
    /\ UNCHANGED <<source, tokens, program, pc, error, variables, step_results,
                   todo, history, runs>>

NextPair == CallFirst \/ Walk \/ PeerCall \/ PeerWalk

SpecPair == Init /\ [][NextPair]_vars

(***************************************************************************)
(* Source texts for run_dsl: declarations, one workflow whose body is a    *)
(* run of step snippets, declarations again; and the scenarios by name.    *)
(***************************************************************************)
ScenarioA == "let a = \"x\"\nworkflow \"W\" { step 1: print(a + \"y\") }"

DeclSrcBefore == {"", "let a = \"x\"\n", "var c=a+1.50 "}
DeclSrcAfter == {"", "\nlet a=\"z\" let b=a", " const b=1!=2"}

StepSrc ==
    { "step 1:print(a+\"y\")",
      "step 1:output(a+\"y\",'f')",
      "step 2:bogus()",
      "step 3:show(step 2.message,step 1)",
      "step 3:if(step 1.status==200){step 4:ok}else{step 5:bad}",
      "step 6:if(a==\"x\"==b){step 7:done}",
      "step 6:if(a+b){}else{step 2:validate}",
      "step 8:show(a.len<=1)",
      "if(a){}",
      "step 9:show(\"x)",
      "step 1.5:input(1.5, 2.0)\n" }

\* valid text or nothing, then a lexical fault, then nothing or more text
LexFaultSrc ==
    { before \o fault \o after :
        before \in {"", "let a=\"x\"\nworkflow \"W\"{step 1:output(a)}\n"},
        fault \in {"@", "!", "\"x", "a!b", "'y"},
        after \in {"", " let b=1"} }

\* a text with one token missing or out of place, and the message of the
\* production that misses it
ParseFaults ==
    { [text |-> ")", message |-> "Expected workflow or variable declaration"],
      [text |-> "let =1", message |-> "Expected variable name"],
      [text |-> "let b 1", message |-> "Expected '=' after variable name"],
      [text |-> "let b=)", message |-> "Expected expression"],
      [text |-> "workflow W{}", message |-> "Expected workflow name"],
      [text |-> "workflow \"V\" step", message |-> "Expected '{' after workflow name"],
      [text |-> "workflow \"V\"{step :x()}", message |-> "Expected step number"],
      [text |-> "workflow \"V\"{step 1 x()}", message |-> "Expected ':' after step number"],
      [text |-> "workflow \"V\"{step 1:if a{}}", message |-> "Expected '(' after 'if'"] }

\* valid text or nothing, then the fault, then nothing or a second fault
ParseFaultBefore == {"", "let a=\"x\"\nworkflow \"W\"{step 1:output(a)}\n"}
ParseFaultAfter == {"", " let ) workflow"}

ParseFaultSrc ==
    { before \o fault.text \o after :
        before \in ParseFaultBefore, fault \in ParseFaults, after \in ParseFaultAfter }

\* scenario B as the body of a workflow, and the same shape with command
\* names that are not keywords of the lexer
ScenarioB ==
    "workflow \"W\" { step 1: fetch(\"u\") if (step 1.status == 200) "
    \o "{ step 2: print(\"ok\") } else { step 3: print(\"bad\") } }"

HeaderlessSrc ==
    "workflow \"W\" { step 1: load(\"u\") if (step 1.status == 200) "
    \o "{ step 2: ok } else { step 3: bad } }"

\* declarations inside a workflow body, as in example 2 of test_examples.rs
WorkflowDeclSrc == "workflow \"W\" { let a = \"x\" var b = a step 1: show(a, b) }"

Sources ==
    {ScenarioA, " \n\t\r ", ScenarioB, HeaderlessSrc, WorkflowDeclSrc}
    \cup LexFaultSrc
    \cup ParseFaultSrc
    \cup { d \o t : d \in DeclSrcBefore, t \in DeclSrcAfter }
    \cup { d \o "workflow \"W\"{" \o body \o "}" \o t :
             d \in DeclSrcBefore, t \in DeclSrcAfter,
             body \in { join(q, "") : q \in SeqsUpTo(StepSrc, MaxSrcSteps) } }

\* a caller hands run_dsl a source text
RunDsl == pc = "idle" /\ \E src \in Sources : Tokenize(src)

\* a caller hands parse_dsl a source text
ParseDsl == pc = "idle" /\ \E src \in Sources : TokenizeOnly(src)

NextDsl == RunDsl \/ Parse \/ ExecuteParsed \/ Walk \/ ParseDsl \/ ParseOnly

SpecDsl == Init /\ [][NextDsl]_vars

Returned == {"lex_failed", "parse_failed", "failed", "done"}

\* both kinds of caller
NextAll == Call \/ RunDsl \/ Parse \/ ExecuteParsed \/ Walk

SpecAll == Init /\ [][NextAll]_vars

(***************************************************************************)
(* Claims                                                                  *)
(***************************************************************************)

\* C1: running tokenize, parse and execute on the source of scenario A ends
\* without an error and leaves exactly one step result, under id 1, with
\* data "xy", status 200 and success true.
C1_ScenarioA ==
    (source = ScenarioA /\ pc \in Returned) =>
        /\ pc = "done"
        /\ error = None
        /\ DOMAIN step_results = {1}
        /\ step_results[1].data = "xy"
        /\ step_results[1].status = 200
        /\ step_results[1].success = TRUE

(***************************************************************************)
(* What the claims speak about                                             *)
(***************************************************************************)
Last(h) == h[Len(h)]

\* the walk is about to execute a Command step / a Conditional step
AtCommand ==
    /\ pc = "running"
    /\ Head(todo).kind = "step"
    /\ Head(todo).node.content.type = "Command"

AtConditional ==
    /\ pc = "running"
    /\ Head(todo).kind = "step"
    /\ Head(todo).node.content.type = "Conditional"

\* the values of the arguments of the Command step about to be executed
CommandArgs == evaluate_arguments(self, Head(todo).node.content.arguments)

\* what the evaluation at the head of the walk gives
HeadResult ==
    IF Head(todo).kind = "variable"
    THEN evaluate_expression(self, Head(todo).node.value)
    ELSE IF Head(todo).kind = "workflow" THEN Ok(TRUE)
    ELSE IF Head(todo).node.content.type = "Command" THEN CommandArgs
    ELSE evaluate_condition(self, Head(todo).node.content.condition)

\* the values separated by one space each, built from the right
RECURSIVE SpaceJoined(_)
SpaceJoined(values) ==
    IF values = <<>> THEN ""
    ELSE IF Len(values) = 1 THEN values[1]
    ELSE SpaceJoined(SubSeq(values, 1, Len(values) - 1)) \o " " \o Last(values)

HandlerNames ==
    {"print", "log", "fetch", "send_email", "notify", "input", "generate",
     "output", "transform", "validate"}

\* the completed Command steps of h that have id n, and the last of them
CommandsAt(h, n) == { i \in DOMAIN h : h[i].kind = "command" /\ h[i].id = n }
CommandIds(h) == { h[i].id : i \in { k \in DOMAIN h : h[k].kind = "command" } }
LastCommand(h, n) ==
    h[CHOOSE i \in CommandsAt(h, n) : \A k \in CommandsAt(h, n) : k <= i]

\* the table that the completed Command steps of h leave behind
Recorded(h) ==
    [n \in CommandIds(h) |->
        command_result(LastCommand(h, n).name, LastCommand(h, n).values)]

\* p comes before q in a depth-first walk of the Program
RECURSIVE PathLess(_, _)
PathLess(p, q) ==
    IF p = <<>> THEN q # <<>>
    ELSE IF q = <<>> THEN FALSE
    ELSE IF Head(p) # Head(q) THEN Head(p) < Head(q)
    ELSE PathLess(Tail(p), Tail(q))

IsPrefix(p, q) == Len(p) <= Len(q) /\ SubSeq(q, 1, Len(p)) = p

\* the step at a path below a list of steps; the step of the Program at a path
RECURSIVE StepAt(_, _)
StepAt(steps, path) ==
    IF Len(path) = 1 THEN steps[path[1]]
    ELSE LET content == steps[path[1]].content
         IN  StepAt(IF path[2] = 1 THEN content.if_steps
                    ELSE Unwrap(content.else_steps),
                    SubSeq(path, 3, Len(path)))

NodeAt(path) == StepAt(program.workflows[path[1]].steps, Tail(path))

Paths(h) == { h[i].path : i \in DOMAIN h }

(***************************************************************************)
(* Claims                                                                  *)
(***************************************************************************)

\* C2: a Command step named print, log or notify whose arguments all evaluate
\* does not fail and records, under its step id, a result whose data is the
\* argument values in order separated by single spaces (the empty string for
\* no arguments), with success true and status 200.
C2_PrintLogNotify ==
    [][ (AtCommand /\ Head(todo).node.content.name \in {"print", "log", "notify"}
           /\ CommandArgs.ok)
        => LET id == Head(todo).node.id
           IN  /\ pc' # "failed"
               /\ id \in DOMAIN step_results'
               /\ step_results'[id].data = SpaceJoined(CommandArgs.v)
               /\ step_results'[id].success = TRUE
               /\ step_results'[id].status = 200 ]_vars

\* print(a, "y") with a = "x" has just recorded "x y" under id 1
C2_Witness ==
    /\ history # <<>>
    /\ Last(history).kind = "command"
    /\ Last(history).name = "print"
    /\ Last(history).values = <<"x", "y">>
    /\ step_results[1].data = "x y"

\* C3: a Command step whose name has no handler and whose arguments all
\* evaluate records {success false, data "", status 400, message "Unknown
\* command: <name>"} under its id, raises no error, and the walk goes on with
\* the following step; a StepReference to that id then reads these values.
C3_UnknownCommand ==
    [][ (AtCommand /\ Head(todo).node.content.name \notin HandlerNames
           /\ CommandArgs.ok)
        => LET id == Head(todo).node.id
               name == Head(todo).node.content.name
               read(property) == evaluate_expression(self', StepReference(id, property))
           IN  /\ pc' = (IF Tail(todo) = <<>> THEN "done" ELSE "running")
               /\ error' = None
               /\ todo' = Tail(todo)
               /\ step_results'[id] =
                      [success |-> FALSE, data |-> "", status |-> 400,
                       message |-> "Unknown command: " \o name]
               /\ read(Some("status")) = Ok("400")
               /\ read(Some("success")) = Ok("false")
               /\ read(Some("message")) = Ok("Unknown command: " \o name)
               /\ read(Some("data")) = Ok("")
               /\ read(None) = Ok("") ]_vars

\* bogus ran under id 1, the walk went on, and a later log step read its
\* message and its data through step references
C3_Witness ==
    \E i, j \in DOMAIN history :
        /\ i < j
        /\ history[i].kind = "command" /\ history[i].name = "bogus"
        /\ history[i].id = 1
        /\ history[j].kind = "command" /\ history[j].name = "log"
        /\ history[j].values = <<"Unknown command: bogus", "">>

\* C4: an evaluation that raises an error (undefined variable, step not
\* found, unknown operator) in a declaration, a command argument or a
\* condition makes execute return that error at once: the failing step
\* changes neither the variables nor the step table, nothing runs after it,
\* and the table is exactly what the Command steps completed before left.
C4_ErrorAborts ==
    /\ [](pc = "failed" => (todo = <<>> /\ step_results = Recorded(history)))
    /\ [][ /\ pc # "failed"
           /\ (pc = "running" /\ ~HeadResult.ok)
                 => /\ pc' = "failed"
                    /\ error' = Some(HeadResult.msg)
                    /\ todo' = <<>>
                    /\ UNCHANGED <<variables, step_results, history>> ]_vars

\* the else branch failed at its second step, on `<`: the log step before it
\* had recorded its result over the one of bogus, the print step after it
\* never ran, and a declaration had completed before the workflow
C4_Witness ==
    /\ pc = "failed"
    /\ error = Some("Unknown binary operator: <")
    /\ DOMAIN variables = {"a"}
    /\ DOMAIN step_results = {1}
    /\ step_results[1].message = "Log executed successfully"
    /\ step_results[1].data = "Unknown command: bogus "

\* a source whose declarations are written after its workflow
OrderSrc == "workflow \"W\"{step 1:output(a+\"y\",'f')}\nlet a=\"z\" let b=a"

\* the steps of the branch that the conditional event e took
TakenSteps(e) ==
    LET content == NodeAt(e.path).content
    IN  IF e.name = "if" THEN content.if_steps
        ELSE IF IsSome(content.else_steps) THEN Unwrap(content.else_steps)
        ELSE <<>>

TakenPath(e, m) == e.path \o <<IF e.name = "if" THEN 1 ELSE 2, m>>

\* C5: execute runs the top-level declarations in their order, all of them
\* before any workflow (also those written after a workflow in the source),
\* then the workflows in order and the steps of each in order; a Conditional
\* is evaluated where it occurs, and every step of the branch it takes runs
\* before the step after the Conditional starts.
C5_ExecutionOrder ==
    /\ \A i \in 1..(Len(history) - 1) :
           PathLess(history[i].path, history[i + 1].path)
    /\ pc = "done" =>
           /\ \A i \in 1..Len(program.variables) : <<0, i>> \in Paths(history)
           /\ \A j \in 1..Len(program.workflows) :
                  /\ <<j>> \in Paths(history)
                  /\ \A k \in 1..Len(program.workflows[j].steps) :
                         <<j, k>> \in Paths(history)
    /\ \A i \in DOMAIN history :
           history[i].kind = "conditional" =>
               LET e == history[i]
                   inside(q) == IsPrefix(e.path, q) /\ q # e.path
               IN  /\ \A q \in Paths(history) :
                          inside(q) => \E m \in 1..Len(TakenSteps(e)) :
                                           IsPrefix(TakenPath(e, m), q)
                   /\ \A k \in DOMAIN history :
                          (k > i /\ ~inside(history[k].path)) =>
                              \A m \in 1..Len(TakenSteps(e)) :
                                  \E x \in (i + 1)..(k - 1) :
                                      history[x].path = TakenPath(e, m)
                   /\ pc = "done" =>
                          \A m \in 1..Len(TakenSteps(e)) :
                              TakenPath(e, m) \in Paths(history)
    /\ (source = OrderSrc /\ pc \in Returned) =>
           /\ pc = "done"
           /\ [i \in DOMAIN history |-> history[i].name] = <<"a", "b", "W", "output">>
           /\ step_results[1].data
                  = "{\"exported\": \"zy\", \"format\": \"f\", \"file\": \"output\"}"

\* a Conditional inside the taken branch of a Conditional ran its own branch,
\* then the rest of the outer branch ran, then the step after the outer
\* Conditional
C5_Witness ==
    /\ pc = "done"
    /\ \E i, j, k \in DOMAIN history :
           /\ history[i].kind = "conditional"
           /\ Len(history[i].path) = 2
           /\ history[j].kind = "conditional"
           /\ history[j].path = history[i].path \o <<1, 1>>
           /\ TakenSteps(history[j]) # <<>>
           /\ history[k].path = <<history[i].path[1], history[i].path[2] + 1>>

\* the Command step with id 1 that completed last in h was a fetch
FetchAtOne(h) == CommandsAt(h, 1) # {} /\ LastCommand(h, 1).name = "fetch"

\* C6: once a fetch Command step with id 1 has run, whatever its arguments,
\* a Conditional whose condition is `step 1.status == 200` does not fail,
\* runs all the steps of its if branch and none of its else branch.
C6_FetchStatus200 ==
    /\ [][ (AtConditional /\ Head(todo).node.content.condition = Status200
              /\ FetchAtOne(history))
           => /\ pc' # "failed"
              /\ todo' = StepItems(Head(todo).node.content.if_steps,
                                   Head(todo).path \o <<1>>) \o Tail(todo) ]_vars
    /\ [](\A j \in DOMAIN history :
             (/\ history[j].kind = "conditional"
              /\ NodeAt(history[j].path).content.condition = Status200
              /\ FetchAtOne(SubSeq(history, 1, j - 1)))
             => /\ history[j].name = "if"
                /\ \A q \in Paths(history) : ~IsPrefix(history[j].path \o <<2>>, q)
                /\ pc = "done" =>
                       \A m \in 1..Len(NodeAt(history[j].path).content.if_steps) :
                           history[j].path \o <<1, m>> \in Paths(history))

\* fetch ran under id 1, the Conditional on its status took the if branch,
\* and both steps of that branch recorded their results
C6_Witness ==
    /\ pc = "done"
    /\ \E i, j \in DOMAIN history :
           /\ i < j
           /\ history[i].kind = "command" /\ history[i].name = "fetch"
           /\ history[j].kind = "conditional" /\ history[j].name = "if"
           /\ NodeAt(history[j].path).content.condition = Status200
    /\ DOMAIN step_results = {1, 4}
    /\ step_results[4].data = "ok"
    /\ step_results[1].message = "Log executed successfully"

ComparisonOperators == {"==", "!=", ">", "<", ">=", "<="}

\* the expressions that the step at the head of the walk hands to
\* evaluate_expression
EvaluatedHere ==
    IF Head(todo).kind = "variable" THEN {Head(todo).node.value}
    ELSE IF Head(todo).kind = "workflow" THEN {}
    ELSE LET content == Head(todo).node.content
         IN  IF content.type = "Command"
             THEN { content.arguments[i] : i \in DOMAIN content.arguments }
             ELSE IF content.condition.type = "BinaryExpression"
             THEN {content.condition.left, content.condition.right}
             ELSE {content.condition}

\* C7 as stated: every `+` concatenates, and no run of a Program that parse
\* produced ends with the unknown-operator error of evaluate_expression.
C7_NeverUnknownOperator ==
    /\ error \notin { Some("Unknown binary operator: " \o op) :
                        op \in ComparisonOperators }
    /\ pc = "running" =>
           \A x \in EvaluatedHere :
               (/\ x.type = "BinaryExpression"
                /\ x.operator = "+"
                /\ evaluate_expression(self, x.left).ok
                /\ evaluate_expression(self, x.right).ok)
               => evaluate_expression(self, x)
                      = Ok(evaluate_expression(self, x.left).v
                           \o evaluate_expression(self, x.right).v)

\* C7, amended: in evaluate_expression a BinaryExpression whose operands
\* evaluate yields their concatenation when its operator is `+` and the
\* error "Unknown binary operator: <op>" otherwise; parse does produce
\* comparisons in variable values, command arguments and operands of a
\* condition, and each of them fails the step that evaluates it.
C7_UnknownOperatorReached ==
    [][ pc = "running" =>
          \A x \in EvaluatedHere :
              (/\ x.type = "BinaryExpression"
               /\ evaluate_expression(self, x.left).ok
               /\ evaluate_expression(self, x.right).ok)
              => IF x.operator = "+"
                 THEN evaluate_expression(self, x)
                          = Ok(evaluate_expression(self, x.left).v
                               \o evaluate_expression(self, x.right).v)
                 ELSE /\ evaluate_expression(self, x)
                             = Err("Unknown binary operator: " \o x.operator)
                      /\ pc' = "failed"
                      /\ Head(todo).kind = "variable" =>
                             error' = Some("Unknown binary operator: " \o x.operator)
                      /\ UNCHANGED <<variables, step_results>> ]_vars

\* run_dsl parsed `if(a=="x"==b)`, whose left operand is a comparison, and
\* the run failed on it
C7_Witness ==
    /\ pc = "failed"
    /\ tokens # <<>>
    /\ error = Some("Unknown binary operator: ==")
    /\ variables = insert(EmptyMap, "a", "x")

\* C8: a condition that is not a BinaryExpression with a comparison operator
\* (a `+` expression included) and whose value evaluates raises no error and
\* takes the if branch unless the value is "", "0" or "false".
C8_Truthiness ==
    [][ (/\ AtConditional
         /\ ~(/\ Head(todo).node.content.condition.type = "BinaryExpression"
              /\ Head(todo).node.content.condition.operator \in ComparisonOperators)
         /\ evaluate_expression(self, Head(todo).node.content.condition).ok)
        => LET value == evaluate_expression(self, Head(todo).node.content.condition).v
               taken == value \notin {"", "0", "false"}
           IN  /\ pc' # "failed"
               /\ todo' = branch_items(Head(todo).node.content, taken, Head(todo).path)
                              \o Tail(todo) ]_vars

\* C9: every call of execute starts with no variable and no step result,
\* also a second call on the same Executor.
C9_StartsEmpty ==
    [][ runs' # runs => (variables' = EmptyMap /\ step_results' = EmptyMap) ]_vars

\* C10: the step table is what the completed Command steps left, the last
\* one of each id counting, wherever in the Program they stand; a
\* StepReference to an id reads the fields of that last result.
C10_LastWriteWins ==
    /\ step_results = Recorded(history)
    /\ \A n \in CommandIds(history) :
           LET last == LastCommand(history, n)
               result == command_result(last.name, last.values)
               read(property) == evaluate_expression(self, StepReference(n, property))
           IN  /\ read(None) = Ok(result.data)
               /\ read(Some("data")) = Ok(result.data)
               /\ read(Some("message")) = Ok(result.message)
               /\ read(Some("status")) = Ok(ToString(result.status))
               /\ read(Some("success")) = Ok(IF result.success THEN "true" ELSE "false")

\* a log step in a branch, in the second workflow, replaced the result that
\* fetch had recorded under id 1 in the first workflow; id 4 kept its own
C10_Witness ==
    /\ \E i, j \in DOMAIN history :
           /\ i < j
           /\ history[i].kind = "command" /\ history[j].kind = "command"
           /\ history[i].id = 1 /\ history[j].id = 1
           /\ history[i].name = "fetch" /\ history[j].name = "log"
           /\ history[i].path[1] = 1 /\ history[j].path[1] = 2
           /\ Len(history[j].path) = 4
    /\ DOMAIN step_results = {1, 4}
    /\ step_results[1].message = "Log executed successfully"
    /\ step_results[4].data = "ok"

(***************************************************************************)
(* Programs of declarations only: every keyword, two names, values that    *)
(* read the names                                                          *)
(***************************************************************************)
MaxDecls == 3       \* declarations of a Program of declarations only

DeclPool ==
    { VariableDeclaration(kind, name, value) :
        kind \in {"let", "var", "const"},
        name \in {"a", "b"},
        value \in { StringLiteral("x"),
                    Identifier("a"),
                    BinaryExpression(Identifier("b"), "+", StringLiteral("y")) } }

DeclPrograms == { Program(<<>>, vs) : vs \in SeqsUpTo(DeclPool, MaxDecls) }

CallDecls == pc = "idle" /\ \E prog \in DeclPrograms : Execute(prog)

NextDecls == CallDecls \/ ExecuteVariable

SpecDecls == Init /\ [][NextDecls]_vars

\* C11: a declaration whose value evaluates never fails, whatever was declared
\* under its name before and with whatever keyword; it binds the name to that
\* value and leaves the binding of every other name as it was.
C11_LastDeclarationWins ==
    [][ (/\ pc = "running"
         /\ Head(todo).kind = "variable"
         /\ evaluate_expression(self, Head(todo).node.value).ok)
        => LET name == Head(todo).node.name
           IN  /\ pc' # "failed"
               /\ DOMAIN variables' = DOMAIN variables \cup {name}
               /\ variables'[name] = evaluate_expression(self, Head(todo).node.value).v
               /\ \A other \in DOMAIN variables \ {name} :
                      variables'[other] = variables[other] ]_vars

\* a was declared, b was declared from it, then a was declared again with
\* another keyword from b: a has the later value and b kept its own
C11_Witness ==
    /\ pc = "done"
    /\ Len(program.variables) = 3
    /\ program.variables[1].name = "a"
    /\ program.variables[3].name = "a"
    /\ program.variables[1].keyword # program.variables[3].keyword
    /\ variables = insert(insert(EmptyMap, "a", "xy"), "b", "x")

(***************************************************************************)
(* Programs that probe one evaluation: some Command steps, then one step   *)
(* that compares two operands, tests one operand, or prints one operand.   *)
(***************************************************************************)
MaxPrefix == 1      \* Command steps before the probing step

\* operands to compare (kept in a sequence: a string and a number share the
\* field name `value`); 200 and 200.0 are the same f64
Values ==
    <<StringLiteral("200"), StringLiteral("200.0"), StringLiteral("abc"),
      StringLiteral(""), StringLiteral("9"), StringLiteral("10"),
      StringLiteral("-1.5"), NumberLiteral(F64(200, 0)), NumberLiteral(F64(2000, 1)),
      NumberLiteral(F64(15, 1)), Identifier("a"), StepReference(1, Some("status"))>>

\* step references: every property, an id that may have a result and one
\* that never has
Refs ==
    <<StepReference(1, None), StepReference(1, Some("status")),
      StepReference(1, Some("data")), StepReference(1, Some("message")),
      StepReference(1, Some("success")), StepReference(1, Some("foo")),
      StepReference(9, None), StepReference(9, Some("status")),
      StepReference(9, Some("data")), StepReference(9, Some("message")),
      StepReference(9, Some("success")), StepReference(9, Some("foo"))>>

Operands == Values \o Refs

Bogus == Step(1, Command("bogus", <<StringLiteral("z")>>))

Compare(l, op, r) ==
    Step(3, ConditionalStatement(BinaryExpression(l, op, r),
                                 <<PrintOk>>, Some(<<PrintBad>>)))
Test(x) == Step(3, ConditionalStatement(x, <<PrintOk>>, Some(<<PrintBad>>)))
Show(x) == Step(2, Command("print", <<x>>))

EvalProgram(vs, prefix, probe) == Program(<<Workflow("W", prefix \o <<probe>>)>>, vs)

CallEval ==
    /\ pc = "idle"
    /\ \E vs \in {<<>>, <<VariableDeclaration("let", "a", StringLiteral("10"))>>},
          prefix \in SeqsUpTo({Fetch, Bogus}, MaxPrefix) :
           \/ \E l \in DOMAIN Values, r \in DOMAIN Values, op \in ComparisonOperators :
                  Execute(EvalProgram(vs, prefix, Compare(Values[l], op, Values[r])))
           \/ \E x \in DOMAIN Operands :
                  \/ Execute(EvalProgram(vs, prefix, Test(Operands[x])))
                  \/ Execute(EvalProgram(vs, prefix, Show(Operands[x])))

NextEval == CallEval \/ Walk

SpecEval == Init /\ [][NextEval]_vars

\* the step about to be executed is a Conditional that compares two operands,
\* both of which evaluate
AtComparison(operators) ==
    /\ AtConditional
    /\ Head(todo).node.content.condition.type = "BinaryExpression"
    /\ Head(todo).node.content.condition.operator \in operators
    /\ evaluate_expression(self, Head(todo).node.content.condition.left).ok
    /\ evaluate_expression(self, Head(todo).node.content.condition.right).ok

LeftValue == evaluate_expression(self, Head(todo).node.content.condition.left).v
RightValue == evaluate_expression(self, Head(todo).node.content.condition.right).v

\* the Conditional at the head of the walk takes the branch that `taken` says
Takes(taken) ==
    /\ pc' # "failed"
    /\ todo' = branch_items(Head(todo).node.content, taken, Head(todo).path)
                   \o Tail(todo)

\* C12: `l == r` holds exactly when the evaluated strings of l and r are the
\* same string and `l != r` exactly when they are not; the number literals
\* 200 and 200.0 both evaluate to "200", and nothing is coerced: the string
\* "200.0" is not equal to the number 200.
C12_StringEquality ==
    /\ [](/\ evaluate_expression(self, NumberLiteral(F64(200, 0))) = Ok("200")
          /\ evaluate_expression(self, NumberLiteral(F64(2000, 1))) = Ok("200")
          /\ evaluate_expression(self, StringLiteral("200.0")) = Ok("200.0"))
    /\ [][ AtComparison({"==", "!="})
           => Takes(IF Head(todo).node.content.condition.operator = "=="
                    THEN LeftValue = RightValue
                    ELSE LeftValue # RightValue) ]_vars

\* `"200.0" == 200` took the else branch
C12_Witness ==
    /\ pc = "done"
    /\ Len(program.workflows) = 1
    /\ Last(program.workflows[1].steps).content.type = "Conditional"
    /\ LET condition == Last(program.workflows[1].steps).content.condition
       IN  /\ condition.type = "BinaryExpression"
           /\ condition.operator = "=="
           /\ condition.left.type = "StringLiteral"
           /\ condition.left.value = "200.0"
           /\ condition.right.type = "NumberLiteral"
           /\ condition.right.value = F64(200, 0)
    /\ DOMAIN step_results = {5}
    /\ step_results[5].data = "bad"

\* ten times the number that an operand string of the probes stands for; a
\* string that is not a number stands for 0
Tenths(s) ==
    CASE s = "200" -> 2000
      [] s = "200.0" -> 2000
      [] s = "400" -> 4000
      [] s = "9" -> 90
      [] s = "10" -> 100
      [] s = "1.5" -> 15
      [] s = "-1.5" -> -15
      [] OTHER -> 0

\* C13: for >, <, >= and <= the two evaluated operand strings are compared as
\* numbers, a string that is not a number counting as 0, and no operand
\* makes the comparison fail.
C13_NumericComparison ==
    [][ AtComparison({">", "<", ">=", "<="})
        => LET l == Tenths(LeftValue)
               r == Tenths(RightValue)
               operator == Head(todo).node.content.condition.operator
           IN  Takes(CASE operator = ">" -> l > r
                       [] operator = "<" -> l < r
                       [] operator = ">=" -> l >= r
                       [] operator = "<=" -> l <= r) ]_vars

\* `"-1.5" < "abc"` took the if branch: -1.5 is below the 0 that "abc" counts as
C13_Witness ==
    /\ pc = "done"
    /\ Len(program.workflows) = 1
    /\ Last(program.workflows[1].steps).content.type = "Conditional"
    /\ LET condition == Last(program.workflows[1].steps).content.condition
       IN  /\ condition.type = "BinaryExpression"
           /\ condition.operator = "<"
           /\ condition.left.type = "StringLiteral"
           /\ condition.left.value = "-1.5"
           /\ condition.right.type = "StringLiteral"
           /\ condition.right.value = "abc"
    /\ DOMAIN step_results = {4}
    /\ step_results[4].data = "ok"

\* what a StepReference is to give in the current state
ExpectedRef(x) ==
    IF x.step_id \in DOMAIN step_results
    THEN LET result == step_results[x.step_id]
         IN  Ok(CASE x.property = Some("status") -> ToString(result.status)
                  [] x.property = Some("message") -> result.message
                  [] x.property = Some("success") ->
                       (IF result.success THEN "true" ELSE "false")
                  [] OTHER -> result.data)
    ELSE Err("Step " \o ToString(x.step_id) \o " not found")

\* the step about to be executed prints one step reference
AtShowRef ==
    /\ AtCommand
    /\ Head(todo).node.content.name = "print"
    /\ Len(Head(todo).node.content.arguments) = 1
    /\ Head(todo).node.content.arguments[1].type = "StepReference"

\* C14: a StepReference to an id that has a result gives the status in
\* decimal, the data, the message, or "true"/"false" for success, and the
\* data when it names no property or any other property; a StepReference to
\* an id without a result fails with "Step <id> not found" whatever the
\* property.
C14_StepReference ==
    /\ [](\A i \in DOMAIN Refs :
             evaluate_expression(self, Refs[i]) = ExpectedRef(Refs[i]))
    /\ [][ AtShowRef
           => LET x == Head(todo).node.content.arguments[1]
                  id == Head(todo).node.id
              IN  IF x.step_id \in DOMAIN step_results
                  THEN /\ pc' # "failed"
                       /\ step_results'[id].data = ExpectedRef(x).v
                  ELSE /\ pc' = "failed"
                       /\ error' = Some("Step " \o ToString(x.step_id) \o " not found")
                       /\ step_results' = step_results ]_vars

\* after fetch, print(step 1.foo) recorded the data of step 1
C14_Witness ==
    /\ pc = "done"
    /\ Len(history) = 3
    /\ history[2].name = "fetch"
    /\ history[3].name = "print"
    /\ program.workflows[1].steps[2].content.arguments[1].type = "StepReference"
    /\ program.workflows[1].steps[2].content.arguments[1].property = Some("foo")
    /\ step_results[2].data = "{\"data\": \"Sample data from u\"}"

\* C15: evaluating an expression or a condition, with or without an error,
\* changes neither the variables nor the step table: a Conditional step and a
\* failing step leave both as they were, only a declaration that completes
\* changes the variables, and only a Command step that completes changes the
\* step table.
C15_EvaluationIsPure ==
    [][ /\ AtConditional => UNCHANGED <<variables, step_results>>
        /\ (pc = "running" /\ ~HeadResult.ok) => UNCHANGED <<variables, step_results>>
        /\ (variables' # variables)
              => \/ runs' # runs
                 \/ pc = "running" /\ Head(todo).kind = "variable" /\ pc' # "failed"
        /\ (step_results' # step_results)
              => \/ runs' # runs
                 \/ AtCommand /\ pc' # "failed" ]_vars

\* a condition has just been evaluated while both the variables and the step
\* table held entries
C15_Witness ==
    /\ history # <<>>
    /\ Last(history).kind = "conditional"
    /\ variables # EmptyMap
    /\ step_results # EmptyMap

\* the characters that start or make up a token, and white space
TokenChars ==
    {"(", ")", "{", "}", ":", ";", ",", ".", "=", "<", ">", "+", "_",
     " ", "\t", "\r", "\n"} \cup Digits \cup Letters

\* a reader of the text that knows only where it is: outside a string
\* ("out"), inside one (the quote that opened it), after a `!` ("bang"), or
\* past a character that belongs to no token ("fault")
Reader(state, c) ==
    CASE state = "fault" -> "fault"
      [] state \in {"\"", "'"} -> (IF c = state THEN "out" ELSE state)
      [] state = "bang" -> (IF c = "=" THEN "out" ELSE "fault")
      [] c \in {"\"", "'"} -> c
      [] c = "!" -> "bang"
      [] c \in TokenChars -> "out"
      [] OTHER -> "fault"

\* the state of the reader after the characters lo..hi of s, read from state
RECURSIVE Read(_, _, _, _)
Read(s, lo, hi, state) ==
    IF state = "fault" \/ lo > hi THEN state
    ELSE IF lo = hi THEN Reader(state, SubSeq(s, lo, lo))
    ELSE Read(s, (lo + hi) \div 2 + 1, hi, Read(s, lo, (lo + hi) \div 2, state))

\* s has an unterminated string, a character outside the token set, or a `!`
\* not followed by `=`
LexFault(s) == Read(s, 1, Len(s), "out") # "out"

\* C16: a source with an unterminated string, a character outside the token
\* set or a `!` without `=`, wherever it stands, makes tokenize return an
\* error and no tokens; run_dsl and parse_dsl then return without parsing:
\* no Program, no variable, no step result, nothing executed.
C16_LexicalErrorAborts ==
    /\ []((pc # "idle" /\ LexFault(source))
            => /\ pc = "lex_failed"
               /\ error # None
               /\ tokens = <<>>
               /\ program = Program(<<>>, <<>>)
               /\ variables = EmptyMap
               /\ step_results = EmptyMap
               /\ history = <<>>
               /\ runs = 0)
    /\ [][pc # "lex_failed"]_vars

\* valid declarations and a valid workflow came before the unterminated string
C16_Witness ==
    /\ pc = "lex_failed"
    /\ source = "let a=\"x\"\nworkflow \"W\"{step 1:output(a)}\n\"x let b=1"
    /\ error = Some("Unterminated string")

\* C17: a token sequence with a missing or unexpected token makes parse
\* return the error of the first such token and no Program; run_dsl and
\* parse_dsl then return that error, and nothing of the source is executed,
\* the declarations and steps before the faulty token included.
C17_ParseErrorAborts ==
    /\ [](pc = "parse_failed"
            => /\ error # None
               /\ program = Program(<<>>, <<>>)
               /\ variables = EmptyMap
               /\ step_results = EmptyMap
               /\ todo = <<>>
               /\ history = <<>>
               /\ runs = 0)
    /\ [](\A before \in ParseFaultBefore, fault \in ParseFaults, after \in ParseFaultAfter :
             (source = before \o fault.text \o after /\ pc \notin {"tokenized", "parse_dsl"})
             => (pc = "parse_failed" /\ error = Some(fault.message)))
    /\ [][pc # "parse_failed"]_vars

\* a declaration and a workflow came before the missing `=`, a second fault
\* after it
C17_Witness ==
    /\ pc = "parse_failed"
    /\ source = "let a=\"x\"\nworkflow \"W\"{step 1:output(a)}\nlet b 1 let ) workflow"
    /\ error = Some("Expected '=' after variable name")

\* C18: when tokenize succeeds the token sequence is not empty, its last
\* token is the Eof token with an empty lexeme and no token before it is an
\* Eof token; the empty source and a source of white space give that one
\* token alone.
C18_EndsWithEof ==
    pc \notin {"idle", "lex_failed"} =>
        /\ tokens # <<>>
        /\ Last(tokens).token_type = "Eof"
        /\ Last(tokens).lexeme = ""
        /\ \A i \in 1..(Len(tokens) - 1) : tokens[i].token_type # "Eof"
        /\ source \in {"", " \n\t\r "} => Len(tokens) = 1

\* a source of white space was tokenized
C18_Witness ==
    /\ pc \in {"tokenized", "parse_dsl"}
    /\ source = " \n\t\r "
    /\ Len(tokens) = 1

\* C19: with the steps of two Executor instances interleaved in any order,
\* each instance returns with the variables, the step results and the outcome
\* of its Program run alone, and a step of one instance changes nothing of
\* the other.
C19_InstancesIsolated ==
    /\ [](pc \in {"done", "failed"} =>
            LET alone == RunAlone(program)
            IN  /\ variables = alone.variables
                /\ step_results = alone.step_results
                /\ pc = alone.pc
                /\ error = alone.error)
    /\ [](peer.pc \in {"done", "failed"} =>
            LET alone == RunAlone(peer.program)
            IN  /\ peer.variables = alone.variables
                /\ peer.step_results = alone.step_results
                /\ peer.pc = alone.pc
                /\ peer.error = alone.error)
    /\ [][ \/ peer' = peer
           \/ UNCHANGED <<program, pc, error, variables, step_results, todo>> ]_vars

\* the first instance has declared a and fetched as step 1; the second one,
\* whose Program reads a, stopped on the undefined variable with empty tables
C19_Witness ==
    /\ pc = "done"
    /\ "a" \in DOMAIN variables
    /\ 1 \in DOMAIN step_results
    /\ peer.pc = "failed"
    /\ peer.error = Some("Undefined variable: a")
    /\ peer.variables = EmptyMap
    /\ peer.step_results = EmptyMap

(***************************************************************************)
(* One call of execute on a new Executor, the walk taking its steps as     *)
(* long as one is left: nothing in execute waits.                          *)
(***************************************************************************)
TermPrograms ==
    { Program(<<Workflow("W", steps)>>, vs) :
        vs \in SeqsUpTo(VarPool, 1), steps \in SeqsUpTo(StepPool, MaxSteps) }

CallTerm == pc = "idle" /\ \E prog \in TermPrograms : Execute(prog)

NextTerm == CallTerm \/ Walk

SpecTerm == Init /\ [][NextTerm]_vars /\ WF_vars(Walk)

\* the steps of a sequence and of every branch below them
RECURSIVE StepCount(_)
StepCount(steps) ==
    IF steps = <<>> THEN 0
    ELSE LET content == Head(steps).content
         IN  1 + StepCount(Tail(steps))
               + (IF content.type = "Conditional"
                  THEN StepCount(content.if_steps)
                       + (IF IsSome(content.else_steps)
                          THEN StepCount(Unwrap(content.else_steps)) ELSE 0)
                  ELSE 0)

\* the declarations, workflows and steps that the items of a walk can still run
RECURSIVE Remaining(_)
Remaining(items) ==
    IF items = <<>> THEN 0
    ELSE Remaining(Tail(items))
         + (IF Head(items).kind = "variable" THEN 1
            ELSE IF Head(items).kind = "workflow"
            THEN 1 + Len(workflow_variables(Head(items).node))
                   + StepCount(Head(items).node.steps)
            ELSE StepCount(<<Head(items).node>>))

\* C20: a call of execute returns: every step of the walk leaves less of the
\* Program to run, a running call leads to done or failed, and nothing runs
\* after that; no declaration or step runs twice in the call; a call that is
\* done has run every declaration, every step of the workflow and every step
\* of each branch taken, and a failed one holds the error it stopped at.
C20_ExecuteTerminates ==
    /\ (pc = "running") ~> (pc \in {"done", "failed"})
    /\ [][ /\ pc \notin {"done", "failed"}
           /\ pc = "running" => Remaining(todo') < Remaining(todo) ]_vars
    /\ [](\A i, j \in DOMAIN history : history[i].path = history[j].path => i = j)
    /\ [](pc = "done" =>
            /\ todo = <<>> /\ error = None
            /\ \A i \in 1..Len(program.variables) : <<0, i>> \in Paths(history)
            /\ \A k \in 1..Len(program.workflows[1].steps) : <<1, k>> \in Paths(history)
            /\ \A i \in DOMAIN history :
                   history[i].kind = "conditional" =>
                       \A m \in 1..Len(TakenSteps(history[i])) :
                           TakenPath(history[i], m) \in Paths(history))
    /\ [](pc = "failed" =>
            /\ todo = <<>> /\ error # None
            /\ Len(history) < Remaining(execute_items(program)))

\* a call returned Ok after a Conditional inside a taken branch ran its own
\* branch
C20_Witness ==
    /\ pc = "done"
    /\ \E i \in DOMAIN history :
           /\ history[i].kind = "conditional"
           /\ Len(history[i].path) = 4
           /\ TakenSteps(history[i]) # <<>>

(***************************************************************************)
(* parse_dsl on `let v = p0 op1 p1 ... opn pn`                             *)
(***************************************************************************)
MaxChain == 2       \* operators in a chain

ChainPrimaries == {"a", "1.5", "step 1.status"}

OperatorLexemes == {"+", "==", "!=", ">", "<", ">=", "<="}

RECURSIVE ChainTexts(_)
ChainTexts(n) ==
    IF n = 0 THEN ChainPrimaries
    ELSE LET shorter == ChainTexts(n - 1)
         IN  shorter \cup { t \o " " \o op \o " " \o p :
                              t \in shorter, op \in OperatorLexemes, p \in ChainPrimaries }

ChainExamples == {"a == b == c", "x == \"a\" + \"b\""}

ChainSources == { "let v = " \o t : t \in ChainTexts(MaxChain) \cup ChainExamples }

CallChain == pc = "idle" /\ \E src \in ChainSources : TokenizeOnly(src)

NextChain == CallChain \/ ParseOnly

SpecChain == Init /\ [][NextChain]_vars

\* the source text of a primary expression
LeafText(e) ==
    CASE e.type = "Identifier" -> e.name
      [] e.type = "StringLiteral" -> "\"" \o e.value \o "\""
      [] e.type = "NumberLiteral" -> f64_to_string(e.value)
      [] e.type = "StepReference" ->
           "step " \o ToString(e.step_id)
           \o (IF IsSome(e.property) THEN "." \o Unwrap(e.property) ELSE "")
      [] e.type = "PropertyAccess" -> e.object.name \o "." \o e.property

\* the primaries and operators of an expression from left to right
RECURSIVE Flatten(_)
Flatten(e) ==
    IF e.type = "BinaryExpression"
    THEN Flatten(e.left) \o " " \o e.operator \o " " \o Flatten(e.right)
    ELSE LeafText(e)

\* (((p0 op1 p1) op2 p2) ... opn pn): no right operand is a BinaryExpression
RECURSIVE LeftNested(_)
LeftNested(e) ==
    e.type = "BinaryExpression" =>
        (e.right.type # "BinaryExpression" /\ LeftNested(e.left))

\* C21: a chain of primaries and binary operators parses, whatever the mix
\* of `+` and comparison operators, to the expression nested to the left whose
\* primaries and operators are those of the chain in their order; so
\* `a == b == c` is (a == b) == c and `x == "a" + "b"` is (x == "a") + "b".
C21_LeftNested ==
    pc \notin {"idle", "parse_dsl"} =>
        /\ pc = "ast"
        /\ Len(program.variables) = 1
        /\ program.workflows = <<>>
        /\ LeftNested(program.variables[1].value)
        /\ "let v = " \o Flatten(program.variables[1].value) = source
        /\ source = "let v = a == b == c" =>
               program.variables[1].value
                   = BinaryExpression(
                         BinaryExpression(Identifier("a"), "==", Identifier("b")),
                         "==", Identifier("c"))
        /\ source = "let v = x == \"a\" + \"b\"" =>
               program.variables[1].value
                   = BinaryExpression(
                         BinaryExpression(Identifier("x"), "==", StringLiteral("a")),
                         "+", StringLiteral("b"))

\* a chain of a comparison and then `+` was parsed with `+` at the root
C21_Witness ==
    /\ pc = "ast"
    /\ source = "let v = a <= 1.5 + step 1.status"
    /\ program.variables[1].value.operator = "+"
    /\ program.variables[1].value.left.operator = "<="

\* C22: a Conditional written in a workflow body without a `step N:` header,
\* after a Command step, is accepted by parse and executed as a conditional
\* once the step before it has completed.  (Stated on the source whose
\* command names are identifiers; scenario B itself already stops at `fetch`.)
C22_HeaderlessConditional ==
    (source = HeaderlessSrc /\ pc \in Returned) =>
        /\ pc = "done"
        /\ \E i, j \in DOMAIN history :
               /\ i < j
               /\ history[i].kind = "command" /\ history[i].path = <<1, 1>>
               /\ history[j].kind = "conditional" /\ history[j].path = <<1, 2>>

\* C23: declarations written in a workflow body before its steps are accepted
\* by parse and are bound before the first step of the workflow executes, so
\* that the step reads them.
C23_WorkflowDeclarations ==
    (source = WorkflowDeclSrc /\ pc \in Returned) =>
        /\ pc = "done"
        /\ "a" \in DOMAIN variables /\ variables["a"] = "x"
        /\ "b" \in DOMAIN variables /\ variables["b"] = "x"
        /\ \E i \in DOMAIN history :
               /\ history[i].kind = "command"
               /\ history[i].values = <<"x", "x">>
               /\ \A j \in DOMAIN history : history[j].kind = "variable" => j < i

\* the walk is about to execute a workflow that has no steps
AtEmptyWorkflow ==
    /\ pc = "running"
    /\ Head(todo).kind = "workflow"
    /\ Head(todo).node.steps = <<>>

\* C24: a workflow with an empty body parses to a Workflow with zero steps,
\* and executing a Workflow with zero steps changes neither the variables nor
\* the step results and raises no error.
C24_EmptyWorkflow ==
    /\ [](\A before \in DeclSrcBefore, after \in DeclSrcAfter :
            (/\ source = before \o "workflow \"W\"{}" \o after
             /\ pc \notin {"idle", "tokenized", "parse_dsl"})
            => /\ pc # "parse_failed"
               /\ program.workflows = <<Workflow("W", <<>>)>>)
    /\ [][ AtEmptyWorkflow
           => /\ UNCHANGED <<variables, step_results>>
              /\ pc' # "failed"
              /\ error' = None
              /\ todo' = Tail(todo) ]_vars

\* run_dsl on `workflow "W"{}` returned Ok with both tables empty
C24_Witness ==
    /\ source = "workflow \"W\"{}"
    /\ pc = "done"
    /\ program.workflows = <<Workflow("W", <<>>)>>
    /\ Len(history) = 1 /\ history[1].kind = "workflow"
    /\ variables = EmptyMap
    /\ step_results = EmptyMap

\* the steps of the branch that the conditional event e did not take, and the
\* path of that branch
UntakenSteps(e) ==
    LET content == NodeAt(e.path).content
    IN  IF e.name = "else" THEN content.if_steps
        ELSE IF IsSome(content.else_steps) THEN Unwrap(content.else_steps)
        ELSE <<>>

UntakenBranch(e) == e.path \o <<IF e.name = "if" THEN 2 ELSE 1>>

\* C25: a Conditional step whose condition evaluates takes one branch: the
\* steps of the if branch when it is true, those of the else branch when it is
\* false and there is one, nothing otherwise; the steps of the branch taken
\* run in their order, all of them when the call returns Ok, and no step of
\* the other branch runs.  A Command step of the branch not taken whose id no
\* completed Command step has leaves no result, and a StepReference to that id
\* fails with `Step <id> not found`.
C25_OneBranch ==
    /\ [][ (AtConditional /\ HeadResult.ok)
           => LET content == Head(todo).node.content
                  path == Head(todo).path
              IN  /\ pc' # "failed"
                  /\ UNCHANGED <<variables, step_results>>
                  /\ todo' = (IF HeadResult.v
                              THEN StepItems(content.if_steps, path \o <<1>>)
                              ELSE IF IsSome(content.else_steps)
                              THEN StepItems(Unwrap(content.else_steps), path \o <<2>>)
                              ELSE <<>>) \o Tail(todo) ]_vars
    /\ [](\A i \in DOMAIN history :
            history[i].kind = "conditional" =>
                LET e == history[i]
                IN  /\ \A q \in Paths(history) : ~IsPrefix(UntakenBranch(e), q)
                    /\ \A a, b \in DOMAIN history :
                           \A m, n \in 1..Len(TakenSteps(e)) :
                               (/\ history[a].path = TakenPath(e, m)
                                /\ history[b].path = TakenPath(e, n)
                                /\ m < n) => (i < a /\ a < b)
                    /\ \A n \in 2..Len(TakenSteps(e)) :
                           TakenPath(e, n) \in Paths(history)
                               => TakenPath(e, n - 1) \in Paths(history)
                    /\ pc = "done" =>
                           \A m \in 1..Len(TakenSteps(e)) :
                               TakenPath(e, m) \in Paths(history)
                    /\ \A k \in 1..Len(UntakenSteps(e)) :
                           LET step == UntakenSteps(e)[k]
                               r == evaluate_expression(self, StepReference(step.id, None))
                           IN  (/\ step.content.type = "Command"
                                /\ step.id \notin CommandIds(history))
                               => /\ step.id \notin DOMAIN step_results
                                  /\ ~r.ok
                                  /\ r.msg = "Step " \o ToString(step.id) \o " not found")

\* a call returned Ok after a Conditional took its if branch: both steps of
\* that branch ran, step 4 has its result and step 5 of the else branch none
C25_Witness ==
    /\ pc = "done"
    /\ \E i \in DOMAIN history :
           /\ history[i].kind = "conditional"
           /\ history[i].name = "if"
           /\ Len(TakenSteps(history[i])) = 2
           /\ TakenPath(history[i], 2) \in Paths(history)
           /\ UntakenSteps(history[i])[3].id = 5
           /\ 5 \notin DOMAIN step_results
           /\ 4 \in DOMAIN step_results

\* the events of the call of execute that is running or has just returned
InThisRun(e) == e.run = runs

ThisRun == SelectSeq(history, InThisRun)

\* C26: at every point of a run the keys of the step table are the ids of the
\* Command steps that have completed so far in this run; a Conditional step
\* records nothing under its own id, so that a StepReference to the id of a
\* Conditional step fails with `Step <id> not found` unless a Command step
\* with that id has completed in the run.
C26_KeysAreCompletedCommands ==
    /\ DOMAIN step_results = CommandIds(ThisRun)
    /\ \A i \in DOMAIN ThisRun :
           (ThisRun[i].kind = "conditional" /\ ThisRun[i].id \notin CommandIds(ThisRun))
           => LET r == evaluate_expression(self, StepReference(ThisRun[i].id, None))
              IN  /\ ThisRun[i].id \notin DOMAIN step_results
                  /\ ~r.ok
                  /\ r.msg = "Step " \o ToString(ThisRun[i].id) \o " not found"

(***************************************************************************)
(* parse_dsl on `let v = ` or `let v = step ` followed by a run of digits  *)
(* and what follows it                                                     *)
(***************************************************************************)
MaxDigits == 2      \* digits before the `.`

RECURSIVE DigitTexts(_)
DigitTexts(n) ==
    IF n = 1 THEN {"0", "1", "5"}
    ELSE DigitTexts(n - 1)
         \cup { t \o c : t \in DigitTexts(n - 1), c \in {"0", "1", "5"} }

\* where the Number token stands after each beginning
NumberPrefixes == { [text |-> "let v = ", at |-> 4], [text |-> "let v = step ", at |-> 5] }

\* what follows the digits, the part of it that belongs to the number, and
\* the type of the token after the number
NumberTails ==
    { [text |-> "", fraction |-> "", next |-> "Eof"],
      [text |-> ".", fraction |-> "", next |-> "Dot"],
      [text |-> ".5", fraction |-> ".5", next |-> "Eof"],
      [text |-> ".05", fraction |-> ".05", next |-> "Eof"],
      [text |-> ".status", fraction |-> "", next |-> "Dot"],
      [text |-> ".x1", fraction |-> "", next |-> "Dot"],
      [text |-> ". 5", fraction |-> "", next |-> "Dot"],
      [text |-> "..5", fraction |-> "", next |-> "Dot"],
      [text |-> ".5.5", fraction |-> ".5", next |-> "Dot"],
      [text |-> ".5.status", fraction |-> ".5", next |-> "Dot"] }

NumberSources ==
    { p.text \o d \o t.text :
        p \in NumberPrefixes, d \in DigitTexts(MaxDigits), t \in NumberTails }

CallNumber == pc = "idle" /\ \E src \in NumberSources : TokenizeOnly(src)

NextNumber == CallNumber \/ ParseOnly

SpecNumber == Init /\ [][NextNumber]_vars

\* C27: a `.` after a run of digits belongs to the Number token only when a
\* digit follows it directly, and the token ends before the `.` otherwise:
\* `1.5` is one Number token, `1.status` is Number("1"), Dot,
\* Identifier("status"), and the parser reads `step 1.status` as the
\* StepReference to step 1 with property status.
C27_NumberDot ==
    pc \notin {"idle", "lex_failed"} =>
        /\ \A p \in NumberPrefixes, d \in DigitTexts(MaxDigits), t \in NumberTails :
               source = p.text \o d \o t.text =>
                   /\ tokens[p.at].token_type = "Number"
                   /\ tokens[p.at].lexeme = d \o t.fraction
                   /\ tokens[p.at + 1].token_type = t.next
                   /\ (t.text = ".status") =>
                          /\ tokens[p.at + 2].token_type = "Identifier"
                          /\ tokens[p.at + 2].lexeme = "status"
                          /\ tokens[p.at + 3].token_type = "Eof"
                   /\ (t.text = ".status" /\ p.at = 5 /\ pc # "parse_dsl") =>
                          /\ pc = "ast"
                          /\ program.variables[1].value
                                 = StepReference(DigitsValue(d, 0, Len(d)), Some("status"))
        /\ source = "let v = 1.5" =>
               /\ Len(tokens) = 5
               /\ tokens[4] = Token("Number", "1.5", Some("1.5"), 1)
        /\ source = "let v = 1.status" =>
               /\ Len(tokens) = 7
               /\ tokens[4] = Token("Number", "1", Some("1"), 1)
               /\ tokens[5] = Token("Dot", ".", None, 1)
               /\ tokens[6] = Token("Identifier", "status", None, 1)

\* parse_dsl read `step 1.status` as the StepReference to step 1
C27_Witness ==
    /\ source = "let v = step 1.status"
    /\ pc = "ast"
    /\ program.variables[1].value = StepReference(1, Some("status"))

(***************************************************************************)
(* parse_dsl on source texts that stop at every place of a Program         *)
(***************************************************************************)
CursorFull ==
    "workflow \"W\"{step 1:if(a==1){step 2:show(a,step 1.x)}else{step 3:ok}}let b=a+\"y\""

CursorSources ==
    { SubSeq(CursorFull, 1, n) : n \in 0..Len(CursorFull) }
    \cup ParseFaultSrc
    \cup {ScenarioA, ScenarioB, HeaderlessSrc, WorkflowDeclSrc, OrderSrc}
    \cup { "workflow \"W\"{" \o body \o "}" : body \in StepSrc }

CallCursor == pc = "idle" /\ \E src \in CursorSources : TokenizeOnly(src)

NextCursor == CallCursor \/ ParseOnly

SpecCursor == Init /\ [][NextCursor]_vars

\* a parser over the tokens with its cursor at c
ParserAt(c) == [tokens |-> tokens, current |-> c]

\* the index of the Eof token, counted from 0 as Parser.current is
EofIndex == Len(tokens) - 1

\* r is an error, or the parser after it has its cursor beyond c / not before
\* c, and not beyond the Eof token
Consumes(r, c) == r.ok => (c < r.p.current /\ r.p.current <= EofIndex)
Keeps(r, c) == r.ok => (c <= r.p.current /\ r.p.current <= EofIndex)

\* C28: on the tokens that tokenize returned, from every cursor up to the
\* Eof token: advance moves the cursor by one, so that previous has a token
\* before the cursor, and leaves it alone on the Eof token; is_at_end holds
\* on the Eof token only, so that peek has a token to read; each parse
\* function that a parser loop calls once in an iteration returns an error or
\* a cursor further on and not beyond the Eof token, and the other ones
\* never move the cursor back or beyond the Eof token; parse returns, with a
\* Program or an error.
C28_CursorInRange ==
    /\ pc \notin {"idle", "lex_failed"} =>
           /\ tokens # <<>>
           /\ \A c \in 0..EofIndex :
                  LET P == ParserAt(c)
                  IN  /\ Parser_peek(P) = tokens[c + 1]
                      /\ Parser_is_at_end(P) <=> c = EofIndex
                      /\ Parser_advance(P).current = (IF c = EofIndex THEN c ELSE c + 1)
                      /\ c # EofIndex => Parser_previous(Parser_advance(P)) = tokens[c + 1]
                      /\ Consumes(parse_primary(P), c)
                      /\ Consumes(parse_expression(P), c)
                      /\ Consumes(parse_step(P), c)
                      /\ Consumes(parse_workflow(P), c)
                      /\ Consumes(parse_variable_declaration(P), c)
                      /\ Consumes(parse_command(P), c)
                      /\ Consumes(parse_conditional_statement(P), c)
                      /\ Keeps(parse_expression_list(P), c)
                      /\ Keeps(DotProperty(P), c)
                      /\ Keeps(Arguments(P), c)
                      /\ Keeps(ElseBlock(P), c)
    /\ pc \in {"ast", "parse_failed"} =>
           /\ parse(tokens).ok <=> pc = "ast"
           /\ pc = "ast" => program = parse(tokens).v
           /\ pc = "parse_failed" => error = Some(parse(tokens).msg)

\* parse_dsl stopped on a source that ends inside an else block, the cursor
\* of the parser on the Eof token
C28_Witness ==
    /\ pc = "parse_failed"
    /\ source = SubSeq(CursorFull, 1, 67)
    /\ error = Some("Expected '}' after else block")
    /\ Parser_is_at_end(ParserAt(EofIndex))
====
